---- MODULE Spec2Model ----
(***************************************************************************)
(* Model of the content-aware chunking router of Clint_RAG and of the four *)
(* chunking strategies behind it (semantic, table, Q&A, hierarchical).     *)
(*                                                                         *)
(* Text is a sequence of one-character strings.  Python's str methods and  *)
(* the regular expressions of the source are modelled by what they do on   *)
(* such sequences.  Python values are tagged records:                      *)
(*   [kind |-> "str", text |-> chars]      a str                           *)
(*   [kind |-> "none"]                     None                            *)
(*   [kind |-> "dict", items |-> <<k,v>>s] a mapping, in insertion order   *)
(*   [kind |-> "list", items |-> values]   a list                          *)
(*   [kind |-> "tuple", items |-> values]  a tuple                         *)
(*   [kind |-> "table", ...]               an ExtractedTable               *)
(***************************************************************************)
EXTENDS Integers, Sequences, FiniteSets, TLC

VARIABLES
    pc,             \* position of the caller: "call", "done"; "page", "stored" when ingesting
    content,        \* route_and_chunk's content argument
    content_type,   \* route_and_chunk's content_type argument
    source,         \* route_and_chunk's source argument
    hierarchical_threshold, \* ChunkingRouter.hierarchical_threshold
    hash_seed,      \* the per-process seed of Python's str hash
    result,         \* the ChunkResult returned, or the exception raised
    pages,          \* process_pdf: the pages the PDF processor returned
    page_no,        \* process_pdf: index of the next page of the loop
    all_chunks,     \* process_pdf: the chunks accumulated so far
    stored_ids,     \* process_pdf: the ids handed to the vector store
    previous,       \* the result of the previous run on the same input
    _client,        \* the vector store: its collections, in listing order, and their behaviour
    request,        \* the arguments of the current call of the retrieval and answer services
    _conversations, \* ConversationMemory._conversations
    trace,          \* the oracle calls made so far, in order
    llm             \* what the language model does when it is invoked

chunkvars == <<content, content_type, source, hierarchical_threshold, hash_seed,
               pages, page_no, all_chunks, stored_ids, previous>>

servicevars == <<_client, request, _conversations, trace, llm>>

vars == <<pc, result, chunkvars, servicevars>>

(***************************************************************************)
(* Bounds of the model.                                                    *)
(***************************************************************************)
MaxFrags == 3

(***************************************************************************)
(* Python str helpers.                                                     *)
(***************************************************************************)
Max(S) == CHOOSE x \in S : \A y \in S : y <= x
Min(S) == CHOOSE x \in S : \A y \in S : x <= y

Whitespace == {" ", "\t", "\n"}
IsSpace(c) == c \in Whitespace

\* str.lower() and re.IGNORECASE, on the letters the model's texts use
Lower(c) ==
    CASE c = "Q" -> "q"
      [] c = "A" -> "a"
      [] c = "W" -> "w"
      [] c = "P" -> "p"
      [] OTHER -> c

LowerStr(s) == [i \in 1..Len(s) |-> Lower(s[i])]

\* str.strip()
Strip(s) ==
    LET nz == {i \in 1..Len(s) : ~IsSpace(s[i])}
    IN  IF nz = {} THEN <<>> ELSE SubSeq(s, Min(nz), Max(nz))

\* the literal w occurs in t at position i, ignoring case
MatchAt(t, i, w) ==
    /\ i >= 1
    /\ i + Len(w) - 1 <= Len(t)
    /\ \A k \in 1..Len(w) : Lower(t[i + k - 1]) = Lower(w[k])

\* Python's `w in t` for strings (case-sensitive)
Contains(t, w) ==
    \E i \in 1..(Len(t) - Len(w) + 1) : SubSeq(t, i, i + Len(w) - 1) = w

RECURSIVE Concat(_)
Concat(ss) == IF ss = <<>> THEN <<>> ELSE Head(ss) \o Concat(Tail(ss))

\* sep.join(parts)
RECURSIVE Join(_, _)
Join(parts, sep) ==
    IF parts = <<>> THEN <<>>
    ELSE IF Len(parts) = 1 THEN parts[1]
    ELSE parts[1] \o sep \o Join(Tail(parts), sep)

\* s.split(c) for a one-character separator c: always at least one piece
RECURSIVE SplitChar(_, _)
SplitChar(s, c) ==
    LET hits == {i \in 1..Len(s) : s[i] = c}
    IN  IF hits = {} THEN <<s>>
        ELSE <<SubSeq(s, 1, Min(hits) - 1)>>
                 \o SplitChar(SubSeq(s, Min(hits) + 1, Len(s)), c)

(***************************************************************************)
(* The regular expressions of the router and of the Q&A chunker.           *)
(***************************************************************************)
\* r'\|.*\|.*\|' : three pipes with no newline between them
HasMarkdownRow(t) ==
    \E i, j, k \in 1..Len(t) :
        /\ i < j /\ j < k
        /\ t[i] = "|" /\ t[j] = "|" /\ t[k] = "|"
        /\ \A m \in i..k : t[m] # "\n"

LastNonSpaceUpTo(t, i) ==
    LET c == {b \in 1..i : ~IsSpace(t[b])}
    IN  IF c = {} THEN 0 ELSE Max(c)

\* one repetition of (?:\S+\s*\t) ends at the tab i and a \S follows it
IsTabGap(t, i) ==
    /\ t[i] = "\t"
    /\ i + 1 <= Len(t)
    /\ ~IsSpace(t[i + 1])
    /\ LastNonSpaceUpTo(t, i) > 0

\* r'(?:\S+\s*\t){2,}\S+' : three cells separated by two tab-ended gaps
HasTabRow(t) ==
    \E i, j \in 1..Len(t) :
        /\ i < j
        /\ IsTabGap(t, i)
        /\ IsTabGap(t, j)
        /\ LastNonSpaceUpTo(t, j) >= i + 1
        /\ \A m \in (i + 1)..LastNonSpaceUpTo(t, j) : ~IsSpace(t[m])

_is_table(text) == HasMarkdownRow(text) \/ HasTabRow(text)

\* re.search(qw \s* .+ \s* aw, t, IGNORECASE): "." does not match a newline
DetectQA(t, qw, aw) ==
    \E s, p \in 1..Len(t) :
        /\ MatchAt(t, s, qw)
        /\ MatchAt(t, p, aw)
        /\ p >= s + Len(qw) + 1
        /\ \E i, j \in (s + Len(qw))..(p - 1) :
              /\ i <= j
              /\ \A m \in (s + Len(qw))..(i - 1) : IsSpace(t[m])
              /\ \A m \in i..j : t[m] # "\n"
              /\ \A m \in (j + 1)..(p - 1) : IsSpace(t[m])

WQ == <<"Q", ":">>
WA == <<"A", ":">>
WQuestion == <<"Q", "u", "e", "s", "t", "i", "o", "n", ":">>
WAnswer == <<"A", "n", "s", "w", "e", "r", ":">>
WBoldQuestionStop == <<"*", "*", "Q", "u", "e", "s", "t", "i", "o", "n", "*", "*">>
WBoldQuestion == WBoldQuestionStop \o <<":">>
WBoldAnswer == <<"*", "*", "A", "n", "s", "w", "e", "r", "*", "*", ":">>

_is_qa_format(text) ==
    \/ DetectQA(text, WQ, WA)
    \/ DetectQA(text, WQuestion, WAnswer)
    \/ \E i \in 1..Len(text) : MatchAt(text, i, WBoldQuestion)

\* number of whitespace characters from position i on (a greedy \s*)
SpaceRun(t, i) ==
    LET stop == {k \in i..Len(t) : ~IsSpace(t[k])}
    IN  IF stop = {} THEN Len(t) - i + 1 ELSE Min(stop) - i

\* re.findall(qw \s*(.+?)\s* aw \s*(.+?)(?=stop|$), t, DOTALL | IGNORECASE)
\* scanning from position s, each pair stripped as _extract_qa_pairs does.
\* The question is lazy: the answer marker is the first one that leaves a
\* character for the question and one for the answer; the answer is lazy: it
\* ends at the first stop marker, at the end, or before a final newline.
RECURSIVE FindAllQA(_, _, _, _, _)
FindAllQA(t, s, qw, aw, stop) ==
    IF s > Len(t) THEN <<>>
    ELSE IF ~MatchAt(t, s, qw) THEN FindAllQA(t, s + 1, qw, aw, stop)
    ELSE
        LET q0 == s + Len(qw)
            w == SpaceRun(t, q0)
            Valid(p) == MatchAt(t, p, aw) /\ p + Len(aw) <= Len(t)
            cands == {p \in (q0 + w + 1)..Len(t) : Valid(p)}
            p == IF cands # {} THEN Min(cands)
                 ELSE IF w >= 1 /\ Valid(q0 + w) THEN q0 + w
                 ELSE 0
        IN  IF p = 0 THEN FindAllQA(t, s + 1, qw, aw, stop)
            ELSE
                LET a0 == p + Len(aw)
                    k == SpaceRun(t, a0)
                    astart == IF a0 + k <= Len(t) THEN a0 + k ELSE Len(t)
                    ends == {e \in (astart + 1)..(Len(t) + 1) :
                                \/ e = Len(t) + 1
                                \/ MatchAt(t, e, stop)
                                \/ (e = Len(t) /\ t[e] = "\n")}
                    e == Min(ends)
                IN  <<<<Strip(SubSeq(t, q0, p - 1)), Strip(SubSeq(t, a0, e - 1))>>>>
                        \o FindAllQA(t, e, qw, aw, stop)

\* QAChunker._extract_qa_pairs: the pairs of every pattern, in pattern order
_extract_qa_pairs(text) ==
    FindAllQA(text, 1, WQ, WA, WQ)
        \o FindAllQA(text, 1, WQuestion, WAnswer, WQuestion)
        \o FindAllQA(text, 1, WBoldQuestion, WBoldAnswer, WBoldQuestionStop)

(***************************************************************************)
(* RecursiveCharacterTextSplitter as the chunkers construct it: separators *)
(* "\n\n", "\n", ". ", " ", "", the separator kept at the start of the     *)
(* piece that follows it, pieces merged up to chunk_size with chunk_overlap*)
(* carried over, every chunk stripped and empty chunks dropped.            *)
(***************************************************************************)
Separators == << <<"\n", "\n">>, <<"\n">>, <<".", " ">>, <<" ">>, <<>> >>

\* start positions of the non-overlapping occurrences of sep in t, from i on
RECURSIVE SepStarts(_, _, _)
SepStarts(t, sep, i) ==
    IF i + Len(sep) - 1 > Len(t) THEN <<>>
    ELSE IF SubSeq(t, i, i + Len(sep) - 1) = sep
         THEN <<i>> \o SepStarts(t, sep, i + Len(sep))
         ELSE SepStarts(t, sep, i + 1)

\* the pieces of t cut before each occurrence of sep (separator kept at the
\* start of a piece), or the characters of t when sep is ""; no empty piece
SplitKeep(t, sep) ==
    LET cuts == SepStarts(t, sep, 1)
        from(k) == IF k = 0 THEN 1 ELSE cuts[k]
        upto(k) == IF k = Len(cuts) THEN Len(t) ELSE cuts[k + 1] - 1
        pieces == IF sep = <<>>
                  THEN [i \in 1..Len(t) |-> <<t[i]>>]
                  ELSE [k \in 1..(Len(cuts) + 1) |-> SubSeq(t, from(k - 1), upto(k - 1))]
    IN  SelectSeq(pieces, LAMBDA x : x # <<>>)

\* _join_docs with separator "": the stripped concatenation, <<>> when None
JoinDocs(docs) ==
    LET text == Strip(Concat(docs))
    IN  IF text = <<>> THEN <<>> ELSE <<text>>

RECURSIVE SumLen(_)
SumLen(ss) == IF ss = <<>> THEN 0 ELSE Len(Head(ss)) + SumLen(Tail(ss))

\* the while loop of _merge_splits: pieces leave the front of the window
\* until at most chunk_overlap remains and the next piece fits
RECURSIVE DropFront(_, _, _, _)
DropFront(cur, len, chunk_size, chunk_overlap) ==
    LET total == SumLen(cur)
    IN  IF total > chunk_overlap \/ (total + len > chunk_size /\ total > 0)
        THEN DropFront(Tail(cur), len, chunk_size, chunk_overlap)
        ELSE cur

\* _merge_splits(splits, ""): docs is the list built so far, cur the window
RECURSIVE MergeSplits(_, _, _, _, _)
MergeSplits(splits, docs, cur, chunk_size, chunk_overlap) ==
    IF splits = <<>> THEN docs \o JoinDocs(cur)
    ELSE
        LET d == Head(splits)
            over == SumLen(cur) + Len(d) > chunk_size /\ Len(cur) > 0
            docs2 == IF over THEN docs \o JoinDocs(cur) ELSE docs
            cur2 == IF over THEN DropFront(cur, Len(d), chunk_size, chunk_overlap) ELSE cur
        IN  MergeSplits(Tail(splits), docs2, Append(cur2, d), chunk_size, chunk_overlap)

\* _split_text(text, separators): seps is the list of separators still to try
RECURSIVE SplitText(_, _, _, _)
RECURSIVE SplitPieces(_, _, _, _, _)
SplitText(text, seps, chunk_size, chunk_overlap) ==
    LET found == {i \in 1..Len(seps) : seps[i] = <<>> \/ Contains(text, seps[i])}
        at == IF found = {} THEN Len(seps) ELSE Min(found)
        separator == seps[at]
        new_separators == IF found = {} \/ separator = <<>> THEN <<>>
                          ELSE SubSeq(seps, at + 1, Len(seps))
    IN  SplitPieces(SplitKeep(text, separator), <<>>, new_separators,
                    chunk_size, chunk_overlap)

\* the loop over the pieces: good holds the pieces shorter than chunk_size
\* seen since the last long piece
SplitPieces(splits, good, new_separators, chunk_size, chunk_overlap) ==
    LET merged == IF good = <<>> THEN <<>>
                  ELSE MergeSplits(good, <<>>, <<>>, chunk_size, chunk_overlap)
    IN  IF splits = <<>> THEN merged
        ELSE
            LET s == Head(splits) IN
            IF Len(s) < chunk_size
            THEN SplitPieces(Tail(splits), Append(good, s), new_separators,
                             chunk_size, chunk_overlap)
            ELSE merged
                   \o (IF new_separators = <<>> THEN <<s>>
                       ELSE SplitText(s, new_separators, chunk_size, chunk_overlap))
                   \o SplitPieces(Tail(splits), <<>>, new_separators,
                                  chunk_size, chunk_overlap)

\* splitter.create_documents([text]): the page_content of each document
create_documents(text, chunk_size, chunk_overlap) ==
    SplitText(text, Separators, chunk_size, chunk_overlap)

(***************************************************************************)
(* Python values.                                                          *)
(***************************************************************************)
PyNone == [kind |-> "none"]
PyStr(chars) == [kind |-> "str", text |-> chars]
PyList(items) == [kind |-> "list", items |-> items]
PyTuple(items) == [kind |-> "tuple", items |-> items]
PyDict(items) == [kind |-> "dict", items |-> items]
Raised(error) == [kind |-> "raised", error |-> error]

IsRaised(v) == v.kind = "raised"

\* the decimal digits of a natural number, as str(n) gives them
DigitChars == <<"0", "1", "2", "3", "4", "5", "6", "7", "8", "9">>
RECURSIVE Digits(_)
Digits(n) ==
    IF n < 10 THEN <<DigitChars[n + 1]>>
    ELSE Digits(n \div 10) \o <<DigitChars[(n % 10) + 1]>>

\* s.replace(c, by) for a one-character c
RECURSIVE Replace(_, _, _)
Replace(s, c, by) ==
    IF s = <<>> THEN <<>>
    ELSE (IF Head(s) = c THEN by ELSE <<Head(s)>>) \o Replace(Tail(s), c, by)

\* repr() of a str, with the escapes the model's characters need
Repr(chars) ==
    <<"'">> \o Replace(Replace(chars, "\n", <<"\\", "n">>), "\t", <<"\\", "t">>) \o <<"'">>

\* str(v) and repr(v) of a value
RECURSIVE ToStr(_)
RECURSIVE ReprOf(_)
RECURSIVE ReprAll(_)
ToStr(v) == IF v.kind = "str" THEN v.text ELSE ReprOf(v)

ReprAll(items) == [i \in 1..Len(items) |-> ReprOf(items[i])]

ReprOf(v) ==
    CASE v.kind = "str" -> Repr(v.text)
      [] v.kind = "none" -> <<"N", "o", "n", "e">>
      [] v.kind = "int" -> Digits(v.value)
      [] v.kind = "list" -> <<"[">> \o Join(ReprAll(v.items), <<",", " ">>) \o <<"]">>
      [] v.kind = "tuple" ->
            <<"(">> \o Join(ReprAll(v.items), <<",", " ">>)
                \o (IF Len(v.items) = 1 THEN <<",">> ELSE <<>>) \o <<")">>
      [] v.kind = "dict" ->
            <<"{">> \o Join([i \in 1..Len(v.items) |->
                               Repr(v.items[i][1]) \o <<":", " ">> \o ReprOf(v.items[i][2])],
                            <<",", " ">>) \o <<"}">>
      [] OTHER -> <<"E", "x", "t", "r", "a", "c", "t", "e", "d", "T", "a", "b", "l", "e", "(", ".", ".", ".", ")">>

\* bool(v)
Truthy(v) ==
    CASE v.kind = "none" -> FALSE
      [] v.kind = "str" -> v.text # <<>>
      [] v.kind \in {"list", "tuple", "dict"} -> v.items # <<>>
      [] v.kind = "int" -> v.value # 0
      [] OTHER -> TRUE

\* iteration, len() and v[i] (i counted from 0) on a value
CanIter(v) == v.kind \in {"str", "list", "tuple", "dict"}

Iter(v) ==
    CASE v.kind = "str" -> [i \in 1..Len(v.text) |-> PyStr(<<v.text[i]>>)]
      [] v.kind = "dict" -> [i \in 1..Len(v.items) |-> PyStr(v.items[i][1])]
      [] OTHER -> v.items

PyLen(v) == IF v.kind = "str" THEN Len(v.text) ELSE Len(v.items)

\* the exception v[i] raises, "" when it raises none
IndexError(v, i) ==
    CASE v.kind = "dict" -> "KeyError"
      [] ~CanIter(v) -> "TypeError"
      [] i >= PyLen(v) -> "IndexError"
      [] OTHER -> ""

Index(v, i) == Iter(v)[i + 1]

\* v[1:]
Rest(v) ==
    IF v.kind = "str" THEN PyStr(Tail(v.text))
    ELSE [v EXCEPT !.items = Tail(v.items)]

\* the first raised value of a sequence of values, <<>> when none is raised
FirstRaised(vs) ==
    LET bad == {i \in 1..Len(vs) : IsRaised(vs[i])}
    IN  IF bad = {} THEN <<>> ELSE <<vs[Min(bad)]>>

(***************************************************************************)
(* TableExtractor (src/processors/table_extractor.py).                     *)
(***************************************************************************)
ExtractedTable(markdown, description, title, rows, columns, headers) ==
    [kind |-> "table", markdown |-> markdown, description |-> description,
     title |-> title, rows |-> rows, columns |-> columns, context |-> <<>>,
     headers |-> headers]

\* _generate_description(headers, data, title); headers a sequence of texts,
\* data a sequence of row values
_generate_description(headers, data, title) ==
    LET shown == SelectSeq(SubSeq(data, 1, IF Len(data) < 3 THEN Len(data) ELSE 3),
                           Truthy)
        errors == SelectSeq([i \in 1..Len(shown) |-> IndexError(shown[i], 0)],
                            LAMBDA e : e # "")
        first_col_vals == [i \in 1..Len(shown) |-> ToStr(Index(shown[i], 0))]
        parts ==
            (IF Truthy(title) THEN <<<<"T", "a", "b", "l", "e", ":", " ">> \o title.text \o <<".">>>> ELSE <<>>)
            \o <<<<"T", "h", "i", "s", " ", "t", "a", "b", "l", "e", " ", "h", "a", "s", " ">> \o Digits(Len(data)) \o <<" ", "r", "o", "w", "s", " ", "a", "n", "d", " ">> \o Digits(Len(headers)) \o <<" ", "c", "o", "l", "u", "m", "n", "s", ".">>>>
            \o <<<<"C", "o", "l", "u", "m", "n", "s", ":", " ">> \o Join(headers, <<",", " ">>) \o <<".">>>>
            \o (IF first_col_vals # <<>>
                THEN <<<<"F", "i", "r", "s", "t", " ", "c", "o", "l", "u", "m", "n", " ", "v", "a", "l", "u", "e", "s", " ", "i", "n", "c", "l", "u", "d", "e", ":", " ">> \o Join(first_col_vals, <<",", " ">>) \o <<".">>>>
                ELSE <<>>)
    IN  IF errors # <<>> THEN Raised(errors[1])
        ELSE PyStr(Join(parts, <<" ">>))

\* one data row of convert_to_markdown: the cells padded or truncated to
\* num_cols, "|" escaped and newlines replaced by spaces
MarkdownRow(row, num_cols) ==
    LET Cell(i) ==
            IF i < PyLen(row)
            THEN Replace(Replace(ToStr(Index(row, i)), "|", <<"\\", "|">>), "\n", <<" ">>)
            ELSE <<>>
        cells == [k \in 1..num_cols |-> Cell(k - 1)]
    IN  IF num_cols = 0 THEN PyStr(<<"|", " ", " ", "|">>)
        ELSE IF ~CanIter(row) THEN Raised("TypeError")
        ELSE IF row.kind = "dict" /\ PyLen(row) > 0 THEN Raised("KeyError")
        ELSE PyStr(<<"|", " ">> \o Join(cells, <<" ", "|", " ">>) \o <<" ", "|">>)

\* convert_to_markdown(data, headers, title): headers is PyNone or a list of
\* str; the ExtractedTable, or the exception raised
convert_to_markdown(data, headers, title) ==
    IF ~Truthy(data)
    THEN ExtractedTable(<<>>, <<"E", "m", "p", "t", "y", " ", "t", "a", "b", "l", "e">>, title, 0, 0, <<>>)
    ELSE IF headers = PyNone /\ IndexError(data, 0) # ""
    THEN Raised(IndexError(data, 0))
    ELSE IF headers = PyNone /\ ~CanIter(Index(data, 0))
    THEN Raised("TypeError")
    ELSE IF ~CanIter(data) THEN Raised("TypeError")
    ELSE
        LET hs == IF headers = PyNone
                  THEN [i \in 1..PyLen(Index(data, 0)) |-> ToStr(Iter(Index(data, 0))[i])]
                  ELSE [i \in 1..Len(headers.items) |-> ToStr(headers.items[i])]
            rows == IF headers = PyNone THEN Iter(Rest(data)) ELSE Iter(data)
            num_cols == Len(hs)
            num_rows == Len(rows)
            header_row == <<"|", " ">> \o Join(hs, <<" ", "|", " ">>) \o <<" ", "|">>
            separator == <<"|", " ">>
                            \o Join([i \in 1..num_cols |-> <<"-", "-", "-">>], <<" ", "|", " ">>)
                            \o <<" ", "|">>
            row_strs == [i \in 1..num_rows |-> MarkdownRow(rows[i], num_cols)]
            lines == <<header_row, separator>> \o [i \in 1..num_rows |-> row_strs[i].text]
            description == _generate_description(hs, rows, title)
        IN  IF FirstRaised(row_strs) # <<>> THEN FirstRaised(row_strs)[1]
            ELSE IF IsRaised(description) THEN description
            ELSE ExtractedTable(Join(lines, <<"\n">>), description.text, title,
                                num_rows, num_cols, hs)

\* format_as_context(table)
format_as_context(table) ==
    LET parts ==
            (IF Truthy(table.title) THEN <<<<"#", "#", " ">> \o table.title.text>> ELSE <<>>)
            \o <<table.description, <<>>, table.markdown>>
            \o (IF table.context # <<>> THEN <<<<>>, <<"C", "o", "n", "t", "e", "x", "t", ":", " ">> \o table.context>> ELSE <<>>)
    IN  Join(parts, <<"\n">>)

\* position of the first newline of t at or after i, Len(t) + 1 when none
LineEnd(t, i) ==
    LET nl == {k \in i..Len(t) : t[k] = "\n"}
    IN  IF nl = {} THEN Len(t) + 1 ELSE Min(nl)

\* r'\|[^\n]+\|\n?' at position r: the position after the row, 0 when no row
RowEnd(t, r) ==
    IF r > Len(t) \/ r < 1 THEN 0
    ELSE IF t[r] # "|" THEN 0
    ELSE
        LET qs == {q \in (r + 2)..(LineEnd(t, r) - 1) : t[q] = "|"}
        IN  IF qs = {} THEN 0
            ELSE IF Max(qs) + 1 <= Len(t) /\ t[Max(qs) + 1] = "\n" THEN Max(qs) + 2
            ELSE Max(qs) + 1

\* the greedy (?: row )+ from position r, where one row is known to match
RECURSIVE RowsEnd(_, _)
RowsEnd(t, r) == IF RowEnd(t, r) = 0 THEN r ELSE RowsEnd(t, RowEnd(t, r))

SeparatorClass == {"-", ":", "|", " ", "\t", "\n"}

\* r'(\|[^\n]+\|\n\|[-:\|\s]+\|\n(?:\|[^\n]+\|\n?)+)' at position s: the
\* position after the match, 0 when there is none
TableMatchEnd(t, s) ==
    LET e1 == LineEnd(t, s)
        p == e1 + 1
        ks == {k \in (p + 2)..(Len(t) - 1) :
                 /\ t[k] = "|" /\ t[k + 1] = "\n"
                 /\ \A m \in (p + 1)..(k - 1) : t[m] \in SeparatorClass
                 /\ RowEnd(t, k + 2) # 0}
    IN  IF t[s] # "|" \/ e1 > Len(t) \/ e1 - 1 < s + 2 THEN 0
        ELSE IF t[e1 - 1] # "|" \/ p > Len(t) THEN 0
        ELSE IF t[p] # "|" \/ ks = {} THEN 0
        ELSE RowsEnd(t, Max(ks) + 2)

\* re.finditer of the table pattern from position s: the matched texts
RECURSIVE FindTableTexts(_, _)
FindTableTexts(t, s) ==
    IF s > Len(t) THEN <<>>
    ELSE IF TableMatchEnd(t, s) = 0 THEN FindTableTexts(t, s + 1)
    ELSE <<SubSeq(t, s, TableMatchEnd(t, s) - 1)>> \o FindTableTexts(t, TableMatchEnd(t, s))

\* [c.strip() for c in line.split("|") if c.strip()]
Cells(line) ==
    LET raw == SplitChar(line, "|")
    IN  SelectSeq([i \in 1..Len(raw) |-> Strip(raw[i])], LAMBDA c : c # <<>>)

\* the ExtractedTable _find_markdown_tables builds from one matched text
TableFromText(table_text) ==
    LET raw == SplitChar(Strip(table_text), "\n")
        lines == [i \in 1..Len(raw) |-> Strip(raw[i])]
        headers == Cells(lines[1])
        rows == SelectSeq([i \in 1..(Len(lines) - 2) |-> Cells(lines[i + 2])],
                          LAMBDA c : c # <<>>)
        data == [i \in 1..Len(rows) |->
                    PyList([j \in 1..Len(rows[i]) |-> PyStr(rows[i][j])])]
    IN  ExtractedTable(table_text, _generate_description(headers, data, PyNone).text,
                       PyNone, Len(rows), Len(headers), headers)

_find_markdown_tables(text) ==
    LET found == SelectSeq(FindTableTexts(text, 1),
                           LAMBDA m : Len(SplitChar(Strip(m), "\n")) >= 3)
    IN  [i \in 1..Len(found) |-> TableFromText(found[i])]

\* the table of one block of tab-separated lines, none for fewer than 2 lines
TsvTable(current_table) ==
    IF Len(current_table) >= 2
    THEN <<convert_to_markdown(PyList(Tail(current_table)), Head(current_table), PyNone)>>
    ELSE <<>>

\* the loop of _find_tsv_tables over the lines left, current_table being the
\* block of tab-separated lines accumulated so far
RECURSIVE TsvLoop(_, _)
TsvLoop(lines, current_table) ==
    IF lines = <<>> THEN TsvTable(current_table)
    ELSE IF Contains(Head(lines), <<"\t">>)
    THEN LET parts == SplitChar(Head(lines), "\t")
             cells == PyList([i \in 1..Len(parts) |-> PyStr(parts[i])])
         IN  TsvLoop(Tail(lines), Append(current_table, cells))
    ELSE TsvTable(current_table) \o TsvLoop(Tail(lines), <<>>)

_find_tsv_tables(text) == TsvLoop(SplitChar(text, "\n"), <<>>)

extract_tables_from_text(text) ==
    _find_markdown_tables(text) \o _find_tsv_tables(text)

(***************************************************************************)
(* Configuration of the chunkers, scaled down from the defaults of the     *)
(* source (800/150, 1024/100, 256/50 and 5000 characters).                 *)
(***************************************************************************)
ChunkSize == 3
ChunkOverlap == 1
ParentChunkSize == 4
ParentOverlap == 1
ChildChunkSize == 2
ChildOverlap == 1
MaxTableSize == 120

EmptyMetadata == [x \in {} |-> x]

(***************************************************************************)
(* SemanticChunker.chunk (src/chunking/semantic_chunker.py).               *)
(***************************************************************************)
SemanticChunker_chunk(text, src, base_metadata) ==
    IF Strip(text) = <<>> THEN <<>>
    ELSE
        LET docs == create_documents(text, ChunkSize, ChunkOverlap)
        IN  [k \in 1..Len(docs) |->
                [content |-> docs[k],
                 chunk_id |-> src \o "_chunk_" \o ToString(k - 1),
                 index |-> k - 1,
                 metadata |-> [source |-> src, chunk_index |-> k - 1,
                               total_chunks |-> Len(docs), chunk_type |-> "semantic",
                               char_count |-> Len(docs[k])] @@ base_metadata,
                 parent_id |-> ""]]

(***************************************************************************)
(* TableChunker (src/chunking/table_chunker.py).                           *)
(***************************************************************************)
\* the characters of the model's texts, in code order
Alphabet ==
    <<"\t", "\n", " ", "!", "\"", "#", "$", "%", "&", "'", "(", ")", "*", "+", ",", "-", ".", "/", "0", "1", "2", "3", "4", "5">>
    \o <<"6", "7", "8", "9", ":", ";", "<", "=", ">", "?", "@", "A", "B", "C", "D", "E", "F", "G", "H", "I", "J", "K", "L", "M">>
    \o <<"N", "O", "P", "Q", "R", "S", "T", "U", "V", "W", "X", "Y", "Z", "[", "\\", "]", "^", "_", "a", "b", "c", "d", "e">>
    \o <<"f", "g", "h", "i", "j", "k", "l", "m", "n", "o", "p", "q", "r", "s", "t", "u", "v", "w", "x", "y", "z", "{", "|", "}">>
    \o <<"~">>

Ord(c) ==
    LET at == {i \in 1..Len(Alphabet) : Alphabet[i] = c}
    IN  IF at = {} THEN 0 ELSE Min(at)

\* hash(s) of a str: a function of the text and of the seed of the process.
\* WeightedSum adds the weighted character codes of chars[lo..hi].
RECURSIVE WeightedSum(_, _, _)
WeightedSum(chars, lo, hi) ==
    IF lo > hi THEN 0
    ELSE IF lo = hi THEN (Ord(chars[lo]) * ((lo % 7) + 1)) % 65536
    ELSE (WeightedSum(chars, lo, (lo + hi) \div 2)
            + WeightedSum(chars, ((lo + hi) \div 2) + 1, hi)) % 65536

PyHash(chars) == (WeightedSum(chars, 1, Len(chars)) + 31 * hash_seed) % 65536

\* the lines of the table's markdown after the header and separator lines
TableRows(table) ==
    LET lines == SplitChar(table.markdown, "\n")
    IN  SubSeq(lines, 3, Len(lines))

\* rows_per_chunk = max(10, len(rows) // 3)
RowsPerChunk(rows) ==
    IF Len(rows) \div 3 > 10 THEN Len(rows) \div 3 ELSE 10

\* the chunk the loop of _split_large_table makes at offset i (from 0)
SplitPart(table, src, base_metadata, i) ==
    LET lines == SplitChar(table.markdown, "\n")
        header == lines[1]
        separator == lines[2]
        rows == TableRows(table)
        rows_per_chunk == RowsPerChunk(rows)
        chunk_rows == SubSeq(rows, i + 1,
                             IF i + rows_per_chunk < Len(rows)
                             THEN i + rows_per_chunk ELSE Len(rows))
        chunk_markdown == Join(<<header, separator>> \o chunk_rows, <<"\n">>)
        part_num == (i \div rows_per_chunk) + 1
        total_parts == (Len(rows) + rows_per_chunk - 1) \div rows_per_chunk
        chunk_table ==
            [kind |-> "table",
             markdown |-> chunk_markdown,
             description |-> table.description \o <<" ", "(", "P", "a", "r", "t", " ">>
                                \o Digits(part_num) \o <<"/">> \o Digits(total_parts) \o <<")">>,
             title |-> IF Truthy(table.title)
                       THEN PyStr(table.title.text \o <<" ", "(", "P", "a", "r", "t", " ">>
                                    \o Digits(part_num) \o <<")">>)
                       ELSE PyNone,
             rows |-> Len(chunk_rows),
             columns |-> table.columns,
             context |-> table.context,
             headers |-> <<>>]
    IN  [content |-> format_as_context(chunk_table),
         chunk_id |-> src \o "_table_" \o ToString(PyHash(chunk_markdown) % 10000)
                        \o "_part" \o ToString(part_num),
         table |-> chunk_table,
         metadata |-> [source |-> src, chunk_type |-> "table",
                       part |-> part_num, total_parts |-> total_parts,
                       rows |-> Len(chunk_rows),
                       columns |-> table.columns] @@ base_metadata]

\* for i in range(i, len(rows), rows_per_chunk)
RECURSIVE SplitLoop(_, _, _, _)
SplitLoop(table, src, base_metadata, i) ==
    IF i >= Len(TableRows(table)) THEN <<>>
    ELSE <<SplitPart(table, src, base_metadata, i)>>
            \o SplitLoop(table, src, base_metadata, i + RowsPerChunk(TableRows(table)))

\* _split_large_table(table, source, base_metadata)
_split_large_table(table, src, base_metadata) ==
    IF Len(SplitChar(table.markdown, "\n")) < 3 THEN <<>>
    ELSE SplitLoop(table, src, base_metadata, 0)

\* TableChunker.chunk(table, source, context, base_metadata)
TableChunker_chunk(table, src, context, base_metadata) ==
    LET t == [table EXCEPT !.context = context]
        text == format_as_context(t)
    IN  IF Len(text) > MaxTableSize
        THEN _split_large_table(t, src, base_metadata)
        ELSE <<[content |-> text,
                chunk_id |-> src \o "_table_" \o ToString(PyHash(text) % 10000),
                table |-> t,
                metadata |-> [source |-> src, chunk_type |-> "table",
                              rows |-> t.rows, columns |-> t.columns,
                              table_title |-> t.title, headers |-> t.headers]
                                @@ base_metadata]>>

\* TableChunker.chunk_from_data(data, source=..., base_metadata=...)
chunk_from_data(data, src, base_metadata) ==
    LET table == convert_to_markdown(data, PyNone, PyNone)
    IN  IF IsRaised(table) THEN table
        ELSE PyList(TableChunker_chunk(table, src, <<>>, base_metadata))

(***************************************************************************)
(* QAChunker (src/chunking/qa_chunker.py).                                 *)
(***************************************************************************)
\* what one iteration of the loop of QAChunker.chunk does with item i (from
\* 0) of qa_pairs: "skip", "chunk", or the exception it raises
PairOutcome(item) ==
    IF ~CanIter(item) THEN "TypeError"
    ELSE IF PyLen(item) # 2 THEN "ValueError"
    ELSE
        LET question == Iter(item)[1]
            answer == Iter(item)[2]
        IN  IF question.kind # "str" THEN "AttributeError"
            ELSE IF Strip(question.text) = <<>> THEN "skip"
            ELSE IF answer.kind # "str" THEN "AttributeError"
            ELSE IF Strip(answer.text) = <<>> THEN "skip"
            ELSE "chunk"

\* variant: the question and the answer are kept untrimmed
QAChunkOf_Untrimmed(item, i, src, website, base_metadata) ==
    LET question == Iter(item)[1].text
        answer == Iter(item)[2].text
    IN  [content |-> <<"Q", ":", " ">> \o question \o <<"\n", "A", ":", " ">> \o answer,
         question |-> question,
         answer |-> answer,
         chunk_id |-> src \o "_qa_" \o ToString(i),
         metadata |-> (IF Truthy(website) THEN [website |-> website.text] ELSE EmptyMetadata)
                        @@ [source |-> src, chunk_type |-> "qa",
                            question |-> question, chunk_index |-> i]
                        @@ base_metadata]

QAChunkOf(item, i, src, website, base_metadata) ==
    LET question == Strip(Iter(item)[1].text)
        answer == Strip(Iter(item)[2].text)
    IN  [content |-> <<"Q", ":", " ">> \o question \o <<"\n", "A", ":", " ">> \o answer,
         question |-> question,
         answer |-> answer,
         chunk_id |-> src \o "_qa_" \o ToString(i),
         metadata |-> (IF Truthy(website) THEN [website |-> website.text] ELSE EmptyMetadata)
                        @@ [source |-> src, chunk_type |-> "qa",
                            question |-> question, chunk_index |-> i]
                        @@ base_metadata]

\* the loop of QAChunker.chunk from item i (from 0) on, chunks built so far
RECURSIVE QALoop(_, _, _, _, _, _)
QALoop(items, i, chunks, src, website, base_metadata) ==
    IF i >= Len(items) THEN PyList(chunks)
    ELSE
        LET outcome == PairOutcome(items[i + 1])
        IN  IF outcome = "skip"
            THEN QALoop(items, i + 1, chunks, src, website, base_metadata)
            ELSE IF outcome = "chunk"
            THEN QALoop(items, i + 1,
                        Append(chunks, QAChunkOf(items[i + 1], i, src, website, base_metadata)),
                        src, website, base_metadata)
            ELSE Raised(outcome)

\* QAChunker.chunk(qa_pairs, source, website, base_metadata): the list of
\* chunks, or the exception raised
QAChunker_chunk(qa_pairs, src, website, base_metadata) ==
    IF ~CanIter(qa_pairs) THEN Raised("TypeError")
    ELSE QALoop(Iter(qa_pairs), 0, <<>>, src, website, base_metadata)

\* QAChunker.chunk_from_text
chunk_from_text(text, src, website, base_metadata) ==
    LET pairs == _extract_qa_pairs(text)
    IN  QAChunker_chunk(
            PyList([i \in 1..Len(pairs) |-> PyTuple(<<PyStr(pairs[i][1]), PyStr(pairs[i][2])>>)]),
            src, website, base_metadata)

q_indicators == <<<<"q", "u", "e", "s", "t", "i", "o", "n">>, <<"q">>, <<"q", "u", "e", "r", "y">>, <<"f", "a", "q">>>>
a_indicators == <<<<"a", "n", "s", "w", "e", "r">>, <<"a">>, <<"r", "e", "s", "p", "o", "n", "s", "e">>, <<"r", "e", "p", "l", "y">>>>

\* the inner loops of _detect_qa_columns: some indicator occurs in the name
HasIndicator(lower, indicators) ==
    \E k \in 1..Len(indicators) : Contains(lower, indicators[k])

\* the outer loop of _detect_qa_columns over the columns left; a key is <<>>
\* while it is None and <<column>> afterwards
RECURSIVE DetectLoop(_, _, _)
DetectLoop(columns, question_key, answer_key) ==
    IF columns = <<>> THEN <<question_key, answer_key>>
    ELSE
        LET col == Head(columns)
            lower == LowerStr(col)
        IN  DetectLoop(Tail(columns),
                       IF HasIndicator(lower, q_indicators) THEN <<col>> ELSE question_key,
                       IF HasIndicator(lower, a_indicators) THEN <<col>> ELSE answer_key)

_detect_qa_columns(columns) == DetectLoop(columns, <<>>, <<>>)

\* the keys of a dict, and d.get(key, default)
Keys(d) == [i \in 1..Len(d.items) |-> d.items[i][1]]

Get(d, key, default) ==
    LET at == {i \in 1..Len(d.items) : d.items[i][1] = key}
    IN  IF at = {} THEN default ELSE d.items[Min(at)][2]

\* QAChunker.chunk_from_rows(rows, source=..., website=..., base_metadata=...)
chunk_from_rows(rows, src, website, base_metadata) ==
    IF rows = <<>> THEN PyList(<<>>)
    ELSE
        LET detected == _detect_qa_columns(Keys(rows[1]))
            question_key == detected[1]
            answer_key == detected[2]
            Value(row, key) == Strip(ToStr(Get(row, key[1], PyStr(<<>>))))
            kept == SelectSeq(rows, LAMBDA row :
                        Value(row, question_key) # <<>> /\ Value(row, answer_key) # <<>>)
            qa_pairs == [i \in 1..Len(kept) |->
                            PyTuple(<<PyStr(Value(kept[i], question_key)),
                                      PyStr(Value(kept[i], answer_key))>>)]
        IN  IF question_key = <<>> \/ answer_key = <<>> THEN PyList(<<>>)
            ELSE IF question_key[1] = <<>> \/ answer_key[1] = <<>> THEN PyList(<<>>)
            ELSE IF \E i \in 1..Len(rows) : rows[i].kind # "dict" THEN Raised("AttributeError")
            ELSE QAChunker_chunk(PyList(qa_pairs), src, website, base_metadata)

(***************************************************************************)
(* HierarchicalChunker.chunk (src/chunking/hierarchical_chunker.py).       *)
(***************************************************************************)
\* variant: the parent reference is built from the child's own index
ChildOf_ChildIndex(child_doc, src, p_idx, c_idx, base_metadata) ==
    [content |-> child_doc,
     chunk_id |-> src \o "_child_" \o ToString(p_idx) \o "_" \o ToString(c_idx),
     level |-> "child",
     parent_id |-> src \o "_parent_" \o ToString(c_idx),
     child_ids |-> <<>>,
     metadata |-> [source |-> src, chunk_type |-> "hierarchical_child",
                   parent_id |-> src \o "_parent_" \o ToString(c_idx),
                   parent_index |-> p_idx, child_index |-> c_idx,
                   level |-> "child"] @@ base_metadata]

ChildOf(child_doc, src, p_idx, c_idx, base_metadata) ==
    [content |-> child_doc,
     chunk_id |-> src \o "_child_" \o ToString(p_idx) \o "_" \o ToString(c_idx),
     level |-> "child",
     parent_id |-> src \o "_parent_" \o ToString(p_idx),
     child_ids |-> <<>>,
     metadata |-> [source |-> src, chunk_type |-> "hierarchical_child",
                   parent_id |-> src \o "_parent_" \o ToString(p_idx),
                   parent_index |-> p_idx, child_index |-> c_idx,
                   level |-> "child"] @@ base_metadata]

\* the children made of the parent document p_idx (from 0)
ChildrenOf(parent_doc, src, p_idx, base_metadata) ==
    LET child_docs == create_documents(parent_doc, ChildChunkSize, ChildOverlap)
    IN  [c \in 1..Len(child_docs) |-> ChildOf(child_docs[c], src, p_idx, c - 1, base_metadata)]

ParentOf(parent_doc, src, p_idx, base_metadata) ==
    LET children == ChildrenOf(parent_doc, src, p_idx, base_metadata)
        child_ids == [c \in 1..Len(children) |-> children[c].chunk_id]
    IN  [content |-> parent_doc,
         chunk_id |-> src \o "_parent_" \o ToString(p_idx),
         level |-> "parent",
         parent_id |-> "",
         child_ids |-> child_ids,
         metadata |-> [child_count |-> Len(child_ids)]
                        @@ [source |-> src, chunk_type |-> "hierarchical_parent",
                            chunk_index |-> p_idx, level |-> "parent"]
                        @@ base_metadata]

\* the loop over parent_docs from p_idx (from 0) on
RECURSIVE HierLoop(_, _, _, _, _, _)
HierLoop(parent_docs, p_idx, parents, children, src, base_metadata) ==
    IF p_idx >= Len(parent_docs) THEN [parents |-> parents, children |-> children]
    ELSE HierLoop(parent_docs, p_idx + 1,
                  Append(parents, ParentOf(parent_docs[p_idx + 1], src, p_idx, base_metadata)),
                  children \o ChildrenOf(parent_docs[p_idx + 1], src, p_idx, base_metadata),
                  src, base_metadata)

\* HierarchicalChunker.chunk(text, source, base_metadata), text a str
HierarchicalChunker_chunk(text, src, base_metadata) ==
    HierLoop(create_documents(text, ParentChunkSize, ParentOverlap), 0, <<>>, <<>>,
             src, base_metadata)

(***************************************************************************)
(* ChunkingRouter (src/chunking/router.py).                                *)
(***************************************************************************)
\* parent_chunks is PyNone unless the hierarchical strategy sets it
ChunkResult(chunks, strategy_used, parent_chunks) ==
    [kind |-> "result", chunks |-> chunks, strategy_used |-> strategy_used,
     parent_chunks |-> parent_chunks]

\* a result whose chunks come from a chunker that may raise
ResultOf(chunks, strategy_used) ==
    IF IsRaised(chunks) THEN chunks
    ELSE ChunkResult(chunks.items, strategy_used, PyNone)

_chunk_semantic(text, src, base_metadata) ==
    ChunkResult(SemanticChunker_chunk(text, src, base_metadata), "semantic", PyNone)

_chunk_table(c, src, base_metadata) ==
    IF c.kind = "table"
    THEN ChunkResult(TableChunker_chunk(c, src, <<>>, base_metadata), "table", PyNone)
    ELSE ResultOf(chunk_from_data(c, src, base_metadata), "table")

_chunk_qa(c, src, website, base_metadata) ==
    IF c.kind = "str"
    THEN ResultOf(chunk_from_text(c.text, src, website, base_metadata), "qa")
    ELSE IF c.kind = "list" /\ Truthy(c)
    THEN IF c.items[1].kind = "dict"
         THEN ResultOf(chunk_from_rows(c.items, src, website, base_metadata), "qa")
         ELSE ResultOf(QAChunker_chunk(c, src, website, base_metadata), "qa")
    ELSE ChunkResult(<<>>, "qa", PyNone)

\* variant: the last child is missing from the chunks
_chunk_hierarchical_DropsLastChild(text, src, base_metadata) ==
    IF text.kind # "str" THEN Raised("TypeError")
    ELSE LET res == HierarchicalChunker_chunk(text.text, src, base_metadata)
         IN  ChunkResult(SubSeq(res.children, 1, Len(res.children) - 1), "hierarchical",
                         res.parents)

\* the splitter's re.search raises TypeError on a text that is no str
_chunk_hierarchical(text, src, base_metadata) ==
    IF text.kind # "str" THEN Raised("TypeError")
    ELSE LET res == HierarchicalChunker_chunk(text.text, src, base_metadata)
         IN  ChunkResult(res.children, "hierarchical", res.parents)

\* variant: the length check comes before the Q&A check
_auto_detect_and_chunk_LengthFirst(text, src, website, base_metadata) ==
    LET chunks == chunk_from_text(text, src, website, base_metadata).items
    IN  IF _is_table(text) THEN ChunkResult(<<>>, "table_detected", PyNone)
        ELSE IF Len(text) > hierarchical_threshold
        THEN _chunk_hierarchical(PyStr(text), src, base_metadata)
        ELSE IF _is_qa_format(text) /\ chunks # <<>>
        THEN ChunkResult(chunks, "qa", PyNone)
        ELSE _chunk_semantic(text, src, base_metadata)

_auto_detect_and_chunk(text, src, website, base_metadata) ==
    LET chunks == chunk_from_text(text, src, website, base_metadata).items
    IN  IF _is_table(text) THEN ChunkResult(<<>>, "table_detected", PyNone)
        ELSE IF _is_qa_format(text) /\ chunks # <<>>
        THEN ChunkResult(chunks, "qa", PyNone)
        ELSE IF Len(text) > hierarchical_threshold
        THEN _chunk_hierarchical(PyStr(text), src, base_metadata)
        ELSE _chunk_semantic(text, src, base_metadata)

\* "\n".join(f"{k}: {v}" for k, v in row.items())
RowText(row) ==
    Join([i \in 1..Len(row.items) |->
            row.items[i][1] \o <<":", " ">> \o ToStr(row.items[i][2])], <<"\n">>)

_handle_dict_content(c, src, website, base_metadata) ==
    IF \A i \in 1..Len(c.items) : c.items[i][2].kind \in {"str", "int"}
    THEN _chunk_semantic(RowText(c), src, base_metadata)
    ELSE ChunkResult(<<>>, "unknown", PyNone)

\* the loop over the rows from row i (from 0) on
RECURSIVE RowsLoop(_, _, _, _)
RowsLoop(rows, i, src, base_metadata) ==
    IF i >= Len(rows) THEN <<>>
    ELSE SemanticChunker_chunk(
             IF rows[i + 1].kind = "dict" THEN RowText(rows[i + 1]) ELSE ToStr(rows[i + 1]),
             src \o "_row_" \o ToString(i), base_metadata)
         \o RowsLoop(rows, i + 1, src, base_metadata)

_handle_list_content(c, src, website, base_metadata) ==
    LET keys_lower == [i \in 1..Len(c.items[1].items) |-> LowerStr(c.items[1].items[i][1])]
        has_q == \E i \in 1..Len(keys_lower) :
                    Contains(keys_lower[i], <<"q", "u", "e", "s", "t", "i", "o", "n">>) \/ keys_lower[i] = <<"q">>
        has_a == \E i \in 1..Len(keys_lower) :
                    Contains(keys_lower[i], <<"a", "n", "s", "w", "e", "r">>) \/ keys_lower[i] = <<"a">>
    IN  IF c.items = <<>> THEN ChunkResult(<<>>, "empty", PyNone)
        ELSE IF c.items[1].kind = "dict" /\ has_q /\ has_a
        THEN _chunk_qa(c, src, website, base_metadata)
        ELSE ChunkResult(RowsLoop(c.items, 0, src, base_metadata), "semantic", PyNone)

route_and_chunk(c, ctype, src, website, base_metadata) ==
    IF ctype = "table" \/ c.kind = "table" THEN _chunk_table(c, src, base_metadata)
    ELSE IF ctype = "qa" THEN _chunk_qa(c, src, website, base_metadata)
    ELSE IF ctype = "hierarchical" THEN _chunk_hierarchical(c, src, base_metadata)
    ELSE IF c.kind = "str" THEN _auto_detect_and_chunk(c.text, src, website, base_metadata)
    ELSE IF c.kind = "dict" THEN _handle_dict_content(c, src, website, base_metadata)
    ELSE IF c.kind = "list" THEN _handle_list_content(c, src, website, base_metadata)
    ELSE _chunk_semantic(ToStr(c), src, base_metadata)

(***************************************************************************)
(* The inputs the model draws from.                                        *)
(***************************************************************************)
MaxRows == 36
MaxListLen == 2
MaxSeed == 1
ThresholdLow == 2
ThresholdHigh == 5

\* the pieces the model's texts are made of
Fragments ==
    {<<"Q", ":">>, <<"Q", ":", "x">>, <<"A", ":">>, <<"x">>, <<" ">>, <<"\n">>,
     <<"|">>, <<"x", "\t">>, <<".">>}

Texts == {Concat(fs) : fs \in UNION {[1..n -> Fragments] : n \in 0..MaxFrags}}

ContentTypes == {"auto", "text", "table", "qa", "hierarchical"}

Row(k1, v1, k2, v2) == PyDict(<<<<k1, PyStr(v1)>>, <<k2, PyStr(v2)>>>>)

\* the column names of the row lists: question side, answer side
KeyPairs ==
    {<<<<"q", "u", "e", "s", "t", "i", "o", "n">>, <<"a", "n", "s", "w", "e", "r">>>>, <<<<"q">>, <<"a">>>>, <<<<"q", "u", "e", "r", "y">>, <<"r", "e", "s", "p", "o", "n", "s", "e">>>>,
     <<<<"f", "a", "q">>, <<"r", "e", "p", "l", "y">>>>, <<<<"Q", "u", "e", "s", "t", "i", "o", "n">>, <<"A", "n", "s", "w", "e", "r">>>>, <<<<"n", "a", "m", "e">>, <<"v", "a", "l", "u", "e">>>>}

CellTexts == {<<>>, <<"x">>, <<" ", "x", " ">>}

RowLists ==
    {PyList([i \in 1..Len(vs) |-> Row(kp[1], vs[i][1], kp[2], vs[i][2])]) :
        kp \in KeyPairs, vs \in UNION {[1..n -> CellTexts \X CellTexts] : n \in 1..MaxListLen}}

TupleItems ==
    {PyTuple(<<PyStr(q), PyStr(a)>>) : q \in CellTexts, a \in CellTexts}
    \cup {PyTuple(<<PyStr(<<"x">>)>>),
          PyTuple(<<PyStr(<<"x">>), PyStr(<<"x">>), PyStr(<<"x">>)>>),
          PyTuple(<<PyNone, PyStr(<<"x">>)>>),
          PyTuple(<<PyStr(<<"x">>), PyNone>>),
          PyTuple(<<PyStr(<<>>), PyNone>>),
          PyNone}

TupleLists == {PyList(items) : items \in UNION {[1..n -> TupleItems] : n \in 0..MaxListLen}}

Dicts ==
    {PyDict(<<>>),
     PyDict(<<<<<<"n", "a", "m", "e">>, PyStr(<<"x">>)>>>>),
     PyDict(<<<<<<"n", "a", "m", "e">>, PyStr(<<"x">>)>>, <<<<"v", "a", "l", "u", "e">>, PyNone>>>>)}

\* the 2D data of a table of n one-cell rows, row i holding the number i
DataRows(n) == [i \in 1..n |-> PyList(<<PyStr(Digits(i))>>)]
HeaderCells == PyList(<<PyStr(<<"h">>)>>)

\* data whose first row is the header row
RawData == {PyList(<<HeaderCells>> \o DataRows(n)) : n \in 0..MaxRows}

\* tables built by convert_to_markdown from data and headers
ConvertedTables == {convert_to_markdown(PyList(DataRows(n)), HeaderCells, PyNone) : n \in 0..MaxRows}

\* the text of a markdown table of n rows, as a document holds it
MarkdownText(n, last_newline) ==
    Join(<<<<"|", "h", "|">>, <<"|", "-", "|">>>> \o [i \in 1..n |-> <<"|">> \o Digits(i) \o <<"|">>],
         <<"\n">>)
      \o (IF last_newline THEN <<"\n">> ELSE <<>>)

TableTexts == {MarkdownText(n, nl) : n \in 1..MaxRows, nl \in BOOLEAN}

\* tables extracted from text by extract_tables_from_text
ExtractedTables ==
    {extract_tables_from_text(t)[1] : t \in {u \in TableTexts : extract_tables_from_text(u) # <<>>}}

Tables == ConvertedTables \cup ExtractedTables

Contents ==
    {PyStr(t) : t \in Texts} \cup {PyNone} \cup Dicts \cup RowLists \cup TupleLists
        \cup RawData \cup Tables

Thresholds == {ThresholdLow, ThresholdHigh}

\* the retrieval and answer services are not in use
ServiceIdle ==
    /\ _client = <<>>
    /\ request = PyNone
    /\ _conversations = <<>>
    /\ trace = <<>>
    /\ llm = PyNone

(***************************************************************************)
(* One call of route_and_chunk, as upload.py and text_ingest.py make it.   *)
(***************************************************************************)
Init ==
    /\ pc = "call"
    /\ content \in Contents
    /\ content_type \in ContentTypes
    /\ source = "doc"
    /\ hierarchical_threshold \in
            (IF content.kind = "str" THEN Thresholds ELSE {ThresholdHigh})
    /\ hash_seed \in (IF content.kind = "table" THEN 0..MaxSeed ELSE {0})
    /\ result = PyNone
    /\ pages = <<>>
    /\ page_no = 0
    /\ all_chunks = <<>>
    /\ stored_ids = <<>>
    /\ previous = PyNone
    /\ ServiceIdle

RouteAndChunk ==
    /\ pc = "call"
    /\ result' = route_and_chunk(content, content_type, source, PyNone, EmptyMetadata)
    /\ pc' = "done"
    /\ UNCHANGED <<chunkvars, servicevars>>

Next == RouteAndChunk

Spec == Init /\ [][Next]_vars

(***************************************************************************)
(* process_pdf (app/routes/upload.py): every page of one PDF is routed     *)
(* with the file name as source, the chunks are accumulated and stored.    *)
(***************************************************************************)
MaxPages == 3

\* page texts as PDFProcessor.process returns them (stripped)
PageTexts ==
    {<<>>, <<"x">>, <<"x", "x", " ", "x">>, <<"Q", ":", "x", "A", ":", "x">>,
     <<"|", "|", "|">>}

PageLists == UNION {[1..n -> PageTexts] : n \in 0..MaxPages}

PageMetadata(n) ==
    [source |-> source, page |-> n, type |-> "pdf", document_id |-> "d0c1d"]

InitIngest ==
    /\ pc = "page"
    /\ pages \in PageLists
    /\ page_no = 1
    /\ all_chunks = <<>>
    /\ stored_ids = <<>>
    /\ content = PyNone
    /\ content_type = "auto"
    /\ source = "doc"
    /\ hierarchical_threshold = ThresholdHigh
    /\ hash_seed = 0
    /\ result = PyNone
    /\ previous = PyNone
    /\ ServiceIdle

\* one iteration of the loop over the pages
ProcessPage ==
    /\ pc = "page"
    /\ page_no <= Len(pages)
    /\ IF Strip(pages[page_no]) = <<>>
       THEN UNCHANGED <<content, result, all_chunks>>
       ELSE /\ content' = PyStr(pages[page_no])
            /\ result' = route_and_chunk(PyStr(pages[page_no]), "auto", source, PyNone,
                                         PageMetadata(page_no))
            /\ all_chunks' = all_chunks \o result'.chunks
    /\ page_no' = page_no + 1
    /\ UNCHANGED <<pc, content_type, source, hierarchical_threshold, hash_seed,
                   pages, stored_ids, previous, servicevars>>

\* after the loop: nothing to store, or the chunks stored under fresh ids
StoreChunks ==
    /\ pc = "page"
    /\ page_no > Len(pages)
    /\ stored_ids' = [i \in 1..Len(all_chunks) |-> "d0c1d" \o "_chunk_" \o ToString(i - 1)]
    /\ pc' = "stored"
    /\ UNCHANGED <<content, content_type, source, hierarchical_threshold, hash_seed,
                   result, pages, page_no, all_chunks, previous, servicevars>>

NextIngest == ProcessPage \/ StoreChunks

SpecIngest == InitIngest /\ [][NextIngest]_vars

(***************************************************************************)
(* Properties of the router.                                               *)
(***************************************************************************)
Done == pc = "done"
Returned == Done /\ result.kind = "result"
RawText == content.kind = "str"

\* the Q&A pattern is detected and the extraction yields at least one chunk
QAYields(t) ==
    /\ _is_qa_format(t)
    /\ \E i \in 1..Len(_extract_qa_pairs(t)) :
            /\ Strip(_extract_qa_pairs(t)[i][1]) # <<>>
            /\ Strip(_extract_qa_pairs(t)[i][2]) # <<>>

\* the strategy the ordered rules give a text
RuleStrategy(t) ==
    IF _is_table(t) THEN "table_detected"
    ELSE IF QAYields(t) THEN "qa"
    ELSE IF Len(t) > hierarchical_threshold THEN "hierarchical"
    ELSE "semantic"

\* C1: for raw text routed with content_type "auto" the first applicable rule
\* decides: table pattern -> "table_detected" with no chunks; Q&A pattern with
\* at least one extracted chunk -> "qa"; length strictly over the threshold ->
\* "hierarchical"; otherwise "semantic".
C1_AutoRuleOrder ==
    (Done /\ RawText /\ content_type = "auto") =>
        /\ result.kind = "result"
        /\ result.strategy_used = RuleStrategy(content.text)
        /\ (_is_table(content.text) => result.chunks = <<>>)
        /\ (result.strategy_used = "qa" => result.chunks # <<>>)

\* C1 witness: a text over the threshold whose Q&A pattern is detected and
\* yields a chunk is routed to "qa", not to "hierarchical"
C1_Witness ==
    /\ Returned /\ RawText /\ content_type = "auto"
    /\ Len(content.text) > hierarchical_threshold
    /\ ~_is_table(content.text)
    /\ result.strategy_used = "qa"

\* the strategy an explicit content_type names
StrategyNamed(ctype) == IF ctype = "text" THEN "semantic" ELSE ctype

\* C2: for raw text routed with an explicit content_type ("text", "table",
\* "qa", "hierarchical") the strategy named by content_type is the one used,
\* whatever the table pattern, the Q&A pattern and the length of the text.
C2_ExplicitBypassesDetection ==
    (Done /\ RawText /\ content_type # "auto") =>
        /\ result.kind = "result"
        /\ result.strategy_used = StrategyNamed(content_type)

\* C3: route_and_chunk returns a ChunkResult and raises no error, for every
\* content value and every content_type.
C3_NeverRaises == Done => result.kind = "result"

(***************************************************************************)
(* Properties of the chunk ids and of the table chunker.                   *)
(***************************************************************************)
DistinctIds(chunks) ==
    \A i, j \in 1..Len(chunks) : i # j => chunks[i].chunk_id # chunks[j].chunk_id

\* C4: no two chunks of one ingestion batch have the same chunk_id: the chunks
\* of all pages of one PDF, and the chunks one call returns for a row list or
\* for a table and its parts.
C4_UniqueChunkIds ==
    /\ DistinctIds(all_chunks)
    /\ (result.kind = "result" => DistinctIds(result.chunks))

\* the data rows of a markdown table: the lines after the header and the
\* separator that hold at least one cell
DataLines(markdown) ==
    LET lines == SplitChar(markdown, "\n")
    IN  SelectSeq(SubSeq(lines, 3, Len(lines)), LAMBDA line : Cells(line) # <<>>)

\* a table whose serialized size exceeds max_table_size has been chunked
SplitDone ==
    /\ Returned
    /\ content.kind = "table"
    /\ Len(format_as_context(content)) > MaxTableSize

\* C5: splitting a table over the size threshold gives no part without data
\* rows, and the data rows of the parts, concatenated in part order, are the
\* data rows of the table.
C5_SplitKeepsRows ==
    SplitDone =>
        /\ \A k \in 1..Len(result.chunks) :
                DataLines(result.chunks[k].table.markdown) # <<>>
        /\ Concat([k \in 1..Len(result.chunks) |->
                        DataLines(result.chunks[k].table.markdown)])
                = DataLines(content.markdown)

\* ceil(n / max(10, n div 3))
PartCount(n) ==
    LET per == IF n \div 3 > 10 THEN n \div 3 ELSE 10
    IN  (n + per - 1) \div per

\* C6: a table of n data rows over the size threshold is split into exactly
\* ceil(n / max(10, n/3)) chunks that carry the part numbers 1, 2, ..., count
\* in order, each with total_parts equal to count.
C6_PartCount ==
    SplitDone =>
        /\ Len(result.chunks) = PartCount(content.rows)
        /\ \A k \in 1..Len(result.chunks) :
                /\ result.chunks[k].metadata.part = k
                /\ result.chunks[k].metadata.total_parts = PartCount(content.rows)

(***************************************************************************)
(* Properties of the Q&A chunker.                                          *)
(***************************************************************************)
\* content is a list of (question, answer) pairs of strings, chunked as Q&A
PairsChunked ==
    /\ Done
    /\ content_type = "qa"
    /\ content.kind = "list"
    /\ content.items # <<>>
    /\ \A i \in 1..Len(content.items) :
            /\ content.items[i].kind = "tuple"
            /\ Len(content.items[i].items) = 2
            /\ content.items[i].items[1].kind = "str"
            /\ content.items[i].items[2].kind = "str"

\* the pairs whose question and answer are both non-empty after trimming
KeptPairs ==
    SelectSeq(content.items,
              LAMBDA pair : Strip(pair.items[1].text) # <<>> /\ Strip(pair.items[2].text) # <<>>)

SeqRange(seq) == {seq[i] : i \in 1..Len(seq)}

\* C8: a non-empty list of row mappings with a question-side key among
\* question, q, query, faq and an answer-side key among answer, a, response,
\* reply is chunked with the Q&A strategy under content_type "auto".
C8_IndicatorRowsUseQA ==
    (/\ Done
     /\ content_type = "auto"
     /\ content.kind = "list"
     /\ content.items # <<>>
     /\ \A i \in 1..Len(content.items) :
            /\ content.items[i].kind = "dict"
            /\ SeqRange(Keys(content.items[i])) \cap SeqRange(q_indicators) # {}
            /\ SeqRange(Keys(content.items[i])) \cap SeqRange(a_indicators) # {})
        => (result.kind = "result" /\ result.strategy_used = "qa")

(***************************************************************************)
(* Properties of the hierarchical chunker.                                 *)
(***************************************************************************)
HierarchicalDone == Returned /\ result.strategy_used = "hierarchical"

Ids(chunks) == [k \in 1..Len(chunks) |-> chunks[k].chunk_id]

\* C9: in a result of HierarchicalChunker.chunk every child's parent_id is
\* the chunk_id of exactly one parent; every parent's child_ids is the
\* ordered list of the ids of the children that name it; child_count is the
\* length of child_ids; the children are listed parent by parent.
C9_ParentChildStructure ==
    HierarchicalDone =>
        LET parents == result.parent_chunks
            children == result.chunks
        IN  /\ \A c \in 1..Len(children) :
                    Cardinality({p \in 1..Len(parents) :
                                    parents[p].chunk_id = children[c].parent_id}) = 1
            /\ \A p \in 1..Len(parents) :
                    /\ parents[p].child_ids
                            = Ids(SelectSeq(children,
                                    LAMBDA child : child.parent_id = parents[p].chunk_id))
                    /\ parents[p].metadata.child_count = Len(parents[p].child_ids)
            /\ Ids(children) = Concat([p \in 1..Len(parents) |-> parents[p].child_ids])

\* C9 witness: several parents, one of them with several children
C9_Witness ==
    /\ HierarchicalDone
    /\ Len(result.parent_chunks) >= 2
    /\ \E p \in 1..Len(result.parent_chunks) : Len(result.parent_chunks[p].child_ids) >= 2

\* a text over the threshold with no table and no Q&A marker, routed as "auto"
LongPlainText ==
    /\ Done /\ RawText /\ content_type = "auto"
    /\ Len(content.text) > hierarchical_threshold
    /\ ~_is_table(content.text)
    /\ ~_is_qa_format(content.text)

\* the result is hierarchical with a parent, and every parent has a child
\* among the chunks
ParentsWithChildren ==
    /\ result.kind = "result"
    /\ result.strategy_used = "hierarchical"
    /\ Len(result.parent_chunks) >= 1
    /\ \A p \in 1..Len(result.parent_chunks) :
            \E c \in 1..Len(result.chunks) :
                /\ result.chunks[c].parent_id = result.parent_chunks[p].chunk_id
                /\ result.chunks[c].chunk_id \in SeqRange(result.parent_chunks[p].child_ids)

\* C10 as stated: every text longer than the threshold with no table and no
\* Q&A marker gets "hierarchical" with at least one parent, and every parent
\* has at least one child among the returned chunks.
C10_LongTextHasParents == LongPlainText => ParentsWithChildren

\* C10 amended: the same for every such text that holds a non-blank character.
C10_LongNonBlankTextHasParents ==
    (LongPlainText /\ Strip(content.text) # <<>>) => ParentsWithChildren

\* C10 witness: such a non-blank text has been split into several parents
C10_Witness ==
    /\ LongPlainText
    /\ Strip(content.text) # <<>>
    /\ result.kind = "result"
    /\ Len(result.chunks) > Len(result.parent_chunks)
    /\ Len(result.parent_chunks) >= 2

(***************************************************************************)
(* Two runs of the chunkers on the same input, the second one possibly in  *)
(* another process (src/chunking/*.py).                                    *)
(***************************************************************************)
\* the row counts of the tables run twice: no row, a small table and one
\* large enough to be split
RerunRows == {0, 2, MaxRows}

RerunTables ==
    {convert_to_markdown(PyList(DataRows(n)), HeaderCells, PyNone) : n \in RerunRows}
        \cup {PyList(<<HeaderCells>> \o DataRows(n)) : n \in RerunRows}

RerunContents ==
    {PyStr(t) : t \in PageTexts} \cup {PyList(<<>>)}
        \cup {PyList(<<item>>) : item \in TupleItems} \cup RerunTables

InitTwice ==
    /\ pc = "first"
    /\ content \in RerunContents
    /\ content_type \in ContentTypes
    /\ source = "doc"
    /\ hierarchical_threshold = ThresholdLow
    /\ hash_seed \in 0..MaxSeed
    /\ result = PyNone
    /\ previous = PyNone
    /\ pages = <<>>
    /\ page_no = 0
    /\ all_chunks = <<>>
    /\ stored_ids = <<>>
    /\ ServiceIdle

FirstRun ==
    /\ pc = "first"
    /\ result' = route_and_chunk(content, content_type, source, PyNone, EmptyMetadata)
    /\ pc' = "ran"
    /\ UNCHANGED <<chunkvars, servicevars>>

\* the interpreter is started again: str hashes are salted per process
Restart ==
    /\ pc = "ran"
    /\ hash_seed' \in 0..MaxSeed
    /\ pc' = "restarted"
    /\ UNCHANGED <<result, content, content_type, source, hierarchical_threshold,
                   pages, page_no, all_chunks, stored_ids, previous, servicevars>>

SecondRun ==
    /\ pc \in {"ran", "restarted"}
    /\ previous' = result
    /\ result' = route_and_chunk(content, content_type, source, PyNone, EmptyMetadata)
    /\ pc' = "compared"
    /\ UNCHANGED <<content, content_type, source, hierarchical_threshold, hash_seed,
                   pages, page_no, all_chunks, stored_ids, servicevars>>

NextTwice == FirstRun \/ Restart \/ SecondRun

SpecTwice == InitTwice /\ [][NextTwice]_vars

\* C11: two runs of a chunking strategy on identical content, source,
\* metadata and configuration return identical chunk sequences (count,
\* order, content, chunk_id, metadata), also when the runs are made by
\* different processes.
C11_SameResultTwice == pc = "compared" => result = previous

(***************************************************************************)
(* The vector store (src/vectorstore/chroma_manager.py).  _client holds    *)
(* the collections in listing order (names), for each collection the hits  *)
(* its similarity query ranks for the current query, nearest first (hits), *)
(* and the collections whose query fails (failing).  Distances and scores  *)
(* are counted in tenths.                                                  *)
(***************************************************************************)
DARUKA_COLLECTION == <<"d", "a", "r", "u", "k", "a", "_", "d", "o", "c", "u", "m", "e", "n", "t", "s">>

list_collections(client) == client.names

\* _client.get_or_create_collection(name): an unknown collection is created
get_or_create_collection(client, name) ==
    IF \E i \in 1..Len(client.names) : client.names[i] = name THEN client
    ELSE [client EXCEPT !.names = Append(@, name)]

\* collection.query(n_results=top_k): the documents, metadatas, distances
\* and ids of the nearest hits (the store raises for a failing collection)
CollectionQuery(client, name, top_k) ==
    IF name \notin DOMAIN client.hits THEN <<>>
    ELSE SubSeq(client.hits[name], 1, Min({top_k, Len(client.hits[name])}))

\* the SearchResults appended for one collection; an exception of the store
\* is caught and printed, and the loop goes on
SearchResultsOf(client, name, top_k) ==
    LET found == CollectionQuery(client, name, top_k)
    IN  IF name \in client.failing THEN <<>>
        ELSE [i \in 1..Len(found) |->
                [content |-> found[i].content,
                 chunk_id |-> found[i].id,
                 score |-> 10 - found[i].dist,
                 metadata |-> PyDict(found[i].meta.items
                                        \o <<<<<<"c", "o", "l", "l", "e", "c", "t", "i", "o", "n">>, PyStr(name)>>>>)]]

\* variant: results of equal score come out in reverse order
RECURSIVE SortByScore_TiesReversed(_)
SortByScore_TiesReversed(results) ==
    IF results = <<>> THEN <<>>
    ELSE LET sorted == SortByScore_TiesReversed(SubSeq(results, 1, Len(results) - 1))
             last == results[Len(results)]
             ahead == {i \in 1..Len(sorted) : sorted[i].score > last.score}
             k == IF ahead = {} THEN 0 ELSE Max(ahead)
         IN  SubSeq(sorted, 1, k) \o <<last>> \o SubSeq(sorted, k + 1, Len(sorted))

\* all_results.sort(key=lambda x: x.score, reverse=True): a stable sort
RECURSIVE SortByScore(_)
SortByScore(results) ==
    IF results = <<>> THEN <<>>
    ELSE LET sorted == SortByScore(SubSeq(results, 1, Len(results) - 1))
             last == results[Len(results)]
             ahead == {i \in 1..Len(sorted) : sorted[i].score >= last.score}
             k == IF ahead = {} THEN 0 ELSE Max(ahead)
         IN  SubSeq(sorted, 1, k) \o <<last>> \o SubSeq(sorted, k + 1, Len(sorted))

\* the loop of ChromaManager.search over collection_names from index i on:
\* the results gathered and the store as the loop leaves it
RECURSIVE SearchLoop(_, _, _, _)
SearchLoop(client, collection_names, top_k, i) ==
    IF i > Len(collection_names) THEN [results |-> <<>>, client |-> client]
    ELSE LET opened == get_or_create_collection(client, collection_names[i])
             rest == SearchLoop(opened, collection_names, top_k, i + 1)
         IN  [results |-> SearchResultsOf(opened, collection_names[i], top_k) \o rest.results,
              client |-> rest.client]

\* ChromaManager.search(query, collection_names, top_k)
search(client, collection_names, top_k) ==
    IF collection_names = <<>> THEN [results |-> <<>>, client |-> client]
    ELSE LET all == SearchLoop(client, collection_names, top_k, 1)
         IN  [results |-> SubSeq(SortByScore(all.results), 1,
                                 Min({top_k, Len(all.results)})),
              client |-> all.client]

(***************************************************************************)
(* RAGRetriever (src/rag/retriever.py).                                    *)
(***************************************************************************)
\* variant: every matching collection is appended
_get_target_collections_AllMatches(client, website_context) ==
    LET all_collections == list_collections(client)
        website_coll == Replace(LowerStr(website_context.text), " ", <<"_">>)
    IN  IF all_collections = <<>> THEN <<DARUKA_COLLECTION>>
        ELSE IF Truthy(website_context)
        THEN <<DARUKA_COLLECTION>>
                \o SelectSeq(all_collections,
                             LAMBDA coll : Contains(LowerStr(coll), website_coll))
        ELSE all_collections

\* RAGRetriever._get_target_collections(website_context)
_get_target_collections(client, website_context) ==
    LET all_collections == list_collections(client)
        website_coll == Replace(LowerStr(website_context.text), " ", <<"_">>)
        matching == {i \in 1..Len(all_collections) :
                        Contains(LowerStr(all_collections[i]), website_coll)}
    IN  IF all_collections = <<>> THEN <<DARUKA_COLLECTION>>
        ELSE IF Truthy(website_context)
        THEN <<DARUKA_COLLECTION>>
                \o (IF matching = {} THEN <<>> ELSE <<all_collections[Min(matching)]>>)
        ELSE all_collections

\* the RetrievedDocument made of one SearchResult
RetrievedDocument(found) ==
    [content |-> found.content,
     source |-> Get(found.metadata, <<"s", "o", "u", "r", "c", "e">>, PyStr(<<"u", "n", "k", "n", "o", "w", "n">>)),
     chunk_id |-> found.chunk_id,
     score |-> found.score,
     page |-> Get(found.metadata, <<"p", "a", "g", "e">>, PyNone),
     metadata |-> found.metadata]

\* RAGRetriever.retrieve(query, website_context, top_k): the documents and
\* the store as the search leaves it
retrieve(client, website_context, top_k, default_top_k) ==
    LET k == IF top_k = 0 THEN default_top_k ELSE top_k
        found == search(client, _get_target_collections(client, website_context), k)
    IN  [documents |-> [i \in 1..Len(found.results) |-> RetrievedDocument(found.results[i])],
         client |-> found.client]

(***************************************************************************)
(* One call of RAGRetriever.retrieve against a store of a few collections. *)
(***************************************************************************)
MaxCollections == 3
MaxHits == 2
DefaultTopK == 5

\* the chunker state while the retrieval and answer services are modelled
ChunkerIdle ==
    /\ content = PyNone
    /\ content_type = "auto"
    /\ source = "doc"
    /\ hierarchical_threshold = ThresholdHigh
    /\ hash_seed = 0
    /\ pages = <<>>
    /\ page_no = 0
    /\ all_chunks = <<>>
    /\ stored_ids = <<>>
    /\ previous = PyNone

CollectionNames == {DARUKA_COLLECTION, <<"w", "e", "b", "s", "i", "t", "e", "_", "a">>, <<"W", "e", "b", "s", "i", "t", "e", "_", "A", "_", "d", "o", "c", "s">>}

\* listings of distinct collections
Listings ==
    {names \in UNION {[1..n -> CollectionNames] : n \in 0..MaxCollections} :
        \A i, j \in 1..Len(names) : i # j => names[i] # names[j]}

\* distances of the hits of an empty and of a filled collection, nearest first
Distances == {3, 5}
Rankings ==
    {ds \in UNION {[1..n -> Distances] : n \in {0, MaxHits}} :
        \A i, j \in 1..Len(ds) : i < j => ds[i] <= ds[j]}

\* the hits of a collection: hit i is the i-th nearest chunk of the collection
HitsOf(name, ds) ==
    [i \in 1..Len(ds) |->
        [content |-> <<"c">>,
         id |-> <<name, i>>,
         dist |-> ds[i],
         meta |-> IF i = 1 THEN PyDict(<<<<<<"s", "o", "u", "r", "c", "e">>, PyStr(<<"s">>)>>>>) ELSE PyDict(<<>>)]]

Stores ==
    {[names |-> names, hits |-> [name \in DOMAIN ranks |-> HitsOf(name, ranks[name])],
      failing |-> failing] :
        names \in Listings,
        ranks \in UNION {[{names[i] : i \in 1..Len(names)} -> Rankings] : names \in Listings},
        failing \in {{}} \cup {{name} : name \in CollectionNames}}

WebsiteContexts ==
    {PyNone, PyStr(<<>>), PyStr(<<"w", "e", "b", "s", "i", "t", "e", " ", "a">>), PyStr(<<"W", "e", "b", "s", "i", "t", "e", "_", "A">>), PyStr(<<"z", "z", "z">>),
     PyStr(<<"d", "a", "r", "u", "k", "a">>)}

InitRetrieve ==
    /\ pc = "call"
    /\ _client \in {st \in Stores : DOMAIN st.hits = {st.names[i] : i \in 1..Len(st.names)}}
    /\ request \in [website_context : WebsiteContexts, top_k : 0..MaxHits]
    /\ result = PyNone
    /\ _conversations = <<>>
    /\ trace = <<>>
    /\ llm = PyNone
    /\ ChunkerIdle

\* the store queries a search makes, in order
StoreCalls(collection_names) ==
    [i \in 1..Len(collection_names) |-> [call |-> "store", arg |-> collection_names[i]]]

Retrieve ==
    /\ pc = "call"
    /\ LET got == retrieve(_client, request.website_context, request.top_k, DefaultTopK)
       IN  /\ result' = [kind |-> "documents", documents |-> got.documents]
           /\ _client' = got.client
           /\ trace' = trace
                \o StoreCalls(_get_target_collections(_client, request.website_context))
    /\ pc' = "done"
    /\ UNCHANGED <<chunkvars, request, _conversations, llm>>

NextRetrieve == Retrieve

SpecRetrieve == InitRetrieve /\ [][NextRetrieve]_vars

(***************************************************************************)
(* Properties of the retriever.                                            *)
(***************************************************************************)
Retrieved == pc = "done" /\ result.kind = "documents"

\* the collections queried, in order
Queried == [i \in 1..Len(trace) |-> trace[i].arg]

\* the ids and scores of the results in the order in which the store
\* produced them: query after query, nearest first
Produced(top_k) ==
    Concat([q \in 1..Len(Queried) |->
                IF Queried[q] \in _client.failing THEN <<>>
                ELSE LET found == CollectionQuery(_client, Queried[q], top_k)
                     IN  [i \in 1..Len(found) |-> <<found[i].id, 10 - found[i].dist>>]])

IsPrefix(short, long) ==
    Len(short) <= Len(long) /\ SubSeq(long, 1, Len(short)) = short

\* C12: the list retrieve returns is sorted by descending score, two results
\* of equal score keep the order in which the vector store produced them,
\* and the list has at most top_k elements.
C12_SortedStableTopK ==
    Retrieved =>
        LET docs == result.documents
            top_k == IF request.top_k = 0 THEN DefaultTopK ELSE request.top_k
            returned == [i \in 1..Len(docs) |-> <<docs[i].chunk_id, docs[i].score>>]
        IN  /\ Len(docs) <= top_k
            /\ \A i, j \in 1..Len(docs) : i < j => docs[i].score >= docs[j].score
            /\ \A score \in 0..10 :
                    IsPrefix(SelectSeq(returned, LAMBDA r : r[2] = score),
                             SelectSeq(Produced(top_k), LAMBDA r : r[2] = score))

\* C12 witness: results of equal score from two collections were returned,
\* and results were cut off at top_k
C12_Witness ==
    /\ Retrieved
    /\ Len(result.documents) = request.top_k
    /\ Len(Queried) >= 2
    /\ \E i, j \in 1..Len(result.documents) :
            /\ i < j
            /\ result.documents[i].score = result.documents[j].score
            /\ result.documents[i].chunk_id[1] # result.documents[j].chunk_id[1]

\* the filter string as it is compared: lower-cased, spaces as underscores
NormalizedFilter(website_context) ==
    [i \in 1..Len(website_context.text) |->
        IF website_context.text[i] = " " THEN "_" ELSE Lower(website_context.text[i])]

\* C13: with no context filter every known collection is searched; with a
\* filter the targets are the default collection followed by the first
\* collection in listing order whose lower-cased name contains the
\* normalized filter, and the default collection alone when none matches.
C13_TargetCollections ==
    [][(pc = "call" /\ pc' = "done" /\ result'.kind = "documents") =>
        LET listing == _client.names
            filter == request.website_context
            queried == [i \in 1..Len(trace') |-> trace'[i].arg]
            matches(i) == Contains(LowerStr(listing[i]), NormalizedFilter(filter))
        IN  IF ~Truthy(filter)
            THEN /\ \A i \in 1..Len(listing) : \E q \in 1..Len(queried) : queried[q] = listing[i]
                 /\ listing # <<>> => queried = listing
            ELSE /\ queried[1] = DARUKA_COLLECTION
                 /\ Len(queried) <= 2
                 /\ \A i \in 1..Len(listing) :
                        (matches(i) /\ \A h \in 1..(i - 1) : ~matches(h))
                            => queried = <<DARUKA_COLLECTION, listing[i]>>
                 /\ (\A i \in 1..Len(listing) : ~matches(i))
                        => queried = <<DARUKA_COLLECTION>>]_vars

\* C13 witness: the filter matches two listed collections and the first of
\* them in listing order was searched after the default collection
C13_Witness ==
    /\ Retrieved
    /\ Truthy(request.website_context)
    /\ Cardinality({i \in 1..Len(_client.names) :
            Contains(LowerStr(_client.names[i]), NormalizedFilter(request.website_context))}) >= 2
    /\ Len(Queried) = 2
    /\ Queried[2] # DARUKA_COLLECTION

\* C18: when the similarity query of one of the target collections fails
\* during retrieve, the request ends in an error and returns no results
\* gathered from the other collections.
C18_StoreFailureEndsRequest ==
    (pc = "done" /\ \E q \in 1..Len(Queried) : Queried[q] \in _client.failing)
        => result.kind = "raised"

(***************************************************************************)
(* ProjectMatcher (src/rag/project_matcher.py).                            *)
(***************************************************************************)
PROJECTS_COLLECTION == <<"d", "a", "r", "u", "k", "a", "_", "p", "r", "o", "j", "e", "c", "t", "s">>

\* scores are counted in tenths: 0.6
MATCH_THRESHOLD == 6

PyInt(n) == [kind |-> "int", value |-> n]

\* ProjectMatcher._parse_list(value): a list as it is, a falsy value as [],
\* the stripped non-empty pieces of a string; any other value has no split
_parse_list(value) ==
    IF value.kind = "list" THEN value
    ELSE IF ~Truthy(value) THEN PyList(<<>>)
    ELSE IF value.kind # "str" THEN Raised("AttributeError")
    ELSE LET pieces == SplitChar(value.text, ",")
             kept == SelectSeq(pieces, LAMBDA item : Strip(item) # <<>>)
         IN  PyList([i \in 1..Len(kept) |-> PyStr(Strip(kept[i]))])

\* the dataclass ProjectMatch
ProjectMatch(name, project_type, focus_areas, target_species, location, description, methodology, expected_outcomes, relevance_score, source_chunk_id) ==
    [kind |-> "ProjectMatch", name |-> name, project_type |-> project_type,
     focus_areas |-> focus_areas, target_species |-> target_species,
     location |-> location, description |-> description,
     methodology |-> methodology, expected_outcomes |-> expected_outcomes,
     relevance_score |-> relevance_score, source_chunk_id |-> source_chunk_id]

\* ProjectMatcher.find_matching_project(grant_focus, grant_requirements,
\* top_k): the value returned, the store as the search leaves it and the
\* calls made to the store
find_matching_project(client, top_k) ==
    LET found == search(client, <<PROJECTS_COLLECTION>>, top_k)
        results == found.results
        best_result == results[1]
        metadata == best_result.metadata
        focus_areas == _parse_list(Get(metadata, <<"f", "o", "c", "u", "s", "_", "a", "r", "e", "a", "s">>, PyStr(<<>>)))
        target_species == _parse_list(Get(metadata, <<"t", "a", "r", "g", "e", "t", "_", "s", "p", "e", "c", "i", "e", "s">>, PyStr(<<>>)))
        expected_outcomes == _parse_list(Get(metadata, <<"e", "x", "p", "e", "c", "t", "e", "d", "_", "o", "u", "t", "c", "o", "m", "e", "s">>, PyStr(<<>>)))
        value ==
            IF results = <<>> THEN PyNone
            ELSE IF best_result.score < MATCH_THRESHOLD THEN PyNone
            ELSE IF \/ focus_areas.kind = "raised"
                    \/ target_species.kind = "raised"
                    \/ expected_outcomes.kind = "raised"
            THEN PyNone
            ELSE ProjectMatch(Get(metadata, <<"p", "r", "o", "j", "e", "c", "t", "_", "n", "a", "m", "e">>, PyStr(<<"U", "n", "n", "a", "m", "e", "d", " ", "P", "r", "o", "j", "e", "c", "t">>)),
                              "existing", focus_areas, target_species,
                              Get(metadata, <<"l", "o", "c", "a", "t", "i", "o", "n">>, PyStr(<<"I", "n", "d", "i", "a">>)),
                              PyStr(best_result.content),
                              Get(metadata, <<"m", "e", "t", "h", "o", "d", "o", "l", "o", "g", "y">>, PyStr(<<>>)),
                              expected_outcomes, best_result.score,
                              PyStr(best_result.chunk_id))
    IN  [value |-> value, client |-> found.client,
         calls |-> StoreCalls(<<PROJECTS_COLLECTION>>)]

(***************************************************************************)
(* json.loads on the texts a language model returns.  The texts of the     *)
(* model use no sign, fraction, exponent or escape sequence.               *)
(***************************************************************************)
\* the grave accent U+0060 of a Markdown code fence, written as a token
Backtick == "grave"
Fence == <<Backtick, Backtick, Backtick>>

\* s.startswith(w)
StartsWith(s, w) == Len(s) >= Len(w) /\ SubSeq(s, 1, Len(w)) = w

\* the first index from i on that holds no JSON whitespace
SkipWs(t, i) ==
    LET at == {j \in i..Len(t) : ~IsSpace(t[j])}
    IN  IF at = {} THEN Len(t) + 1 ELSE Min(at)

JSONDecodeError == Raised("JSONDecodeError")
NoValue == [ok |-> FALSE, value |-> PyNone, next |-> 0]
Parsed(value, next) == [ok |-> TRUE, value |-> value, next |-> next]

IsDigit(c) == \E d \in 1..10 : DigitChars[d] = c
DigitValue(c) == (CHOOSE d \in 1..10 : DigitChars[d] = c) - 1

RECURSIVE NumberValue(_)
NumberValue(ds) ==
    IF ds = <<>> THEN 0
    ELSE 10 * NumberValue(SubSeq(ds, 1, Len(ds) - 1)) + DigitValue(ds[Len(ds)])

\* a string from the character after its opening quote on
JsonString(t, i) ==
    LET quotes == {j \in i..Len(t) : t[j] = "\""}
    IN  IF quotes = {} THEN NoValue
        ELSE Parsed(PyStr(SubSeq(t, i, Min(quotes) - 1)), Min(quotes) + 1)

\* an integer: a single 0, or a run of digits that starts with 1..9
JsonNumber(t, i) ==
    LET stop == {j \in i..(Len(t) + 1) : j > Len(t) \/ ~IsDigit(t[j])}
        end == IF t[i] = "0" THEN i + 1 ELSE Min(stop)
    IN  Parsed(PyInt(NumberValue(SubSeq(t, i, end - 1))), end)

\* d[key] = value on the items of a dict
SetItem(items, key, value) ==
    IF \E k \in 1..Len(items) : items[k][1] = key
    THEN [k \in 1..Len(items) |->
            IF items[k][1] = key THEN <<key, value>> ELSE items[k]]
    ELSE Append(items, <<key, value>>)

RECURSIVE JsonValue(_, _)
RECURSIVE JsonMembers(_, _, _)
RECURSIVE JsonElements(_, _, _)

\* the members of an object from a key on: "key": value, then , or }
JsonMembers(t, i, items) ==
    LET k == SkipWs(t, i)
        key == JsonString(t, k + 1)
        colon == SkipWs(t, key.next)
        member == JsonValue(t, colon + 1)
        after == SkipWs(t, member.next)
    IN  IF k > Len(t) \/ t[k] # "\"" THEN NoValue
        ELSE IF ~key.ok THEN NoValue
        ELSE IF colon > Len(t) \/ t[colon] # ":" THEN NoValue
        ELSE IF ~member.ok THEN NoValue
        ELSE IF after > Len(t) THEN NoValue
        ELSE IF t[after] = ","
        THEN JsonMembers(t, after + 1, SetItem(items, key.value.text, member.value))
        ELSE IF t[after] = "}"
        THEN Parsed(PyDict(SetItem(items, key.value.text, member.value)), after + 1)
        ELSE NoValue

\* the elements of an array from a value on: value, then , or ]
JsonElements(t, i, items) ==
    LET element == JsonValue(t, i)
        after == SkipWs(t, element.next)
    IN  IF ~element.ok THEN NoValue
        ELSE IF after > Len(t) THEN NoValue
        ELSE IF t[after] = ","
        THEN JsonElements(t, after + 1, Append(items, element.value))
        ELSE IF t[after] = "]"
        THEN Parsed(PyList(Append(items, element.value)), after + 1)
        ELSE NoValue

JsonValue(t, i) ==
    LET s == SkipWs(t, i)
        inner == SkipWs(t, s + 1)
    IN  IF s > Len(t) THEN NoValue
        ELSE IF t[s] = "{"
        THEN IF inner <= Len(t) /\ t[inner] = "}" THEN Parsed(PyDict(<<>>), inner + 1)
             ELSE JsonMembers(t, s + 1, <<>>)
        ELSE IF t[s] = "["
        THEN IF inner <= Len(t) /\ t[inner] = "]" THEN Parsed(PyList(<<>>), inner + 1)
             ELSE JsonElements(t, s + 1, <<>>)
        ELSE IF t[s] = "\"" THEN JsonString(t, s + 1)
        ELSE IF IsDigit(t[s]) THEN JsonNumber(t, s)
        ELSE IF StartsWith(SubSeq(t, s, Len(t)), <<"n", "u", "l", "l">>) THEN Parsed(PyNone, s + 4)
        ELSE IF StartsWith(SubSeq(t, s, Len(t)), <<"t", "r", "u", "e">>)
        THEN Parsed([kind |-> "bool", value |-> TRUE], s + 4)
        ELSE IF StartsWith(SubSeq(t, s, Len(t)), <<"f", "a", "l", "s", "e">>)
        THEN Parsed([kind |-> "bool", value |-> FALSE], s + 5)
        ELSE NoValue

\* json.loads(content): the value, or JSONDecodeError for a text that is
\* not one JSON value
json_loads(text) ==
    LET parsed == JsonValue(text, 1)
    IN  IF parsed.ok /\ SkipWs(text, parsed.next) > Len(text)
        THEN parsed.value
        ELSE JSONDecodeError

\* content.split(fence)[1] for a content that starts with the fence
AfterFence(text) ==
    LET rest == SubSeq(text, Len(Fence) + 1, Len(text))
        at == {j \in 1..(Len(rest) - Len(Fence) + 1) :
                  SubSeq(rest, j, j + Len(Fence) - 1) = Fence}
    IN  IF at = {} THEN rest ELSE SubSeq(rest, 1, Min(at) - 1)

\* the text generate_hypothetical_project hands to json.loads
Unfenced(text) ==
    LET stripped == Strip(text)
        inside == AfterFence(stripped)
    IN  Strip(IF ~StartsWith(stripped, Fence) THEN stripped
              ELSE IF StartsWith(inside, <<"j", "s", "o", "n">>) THEN SubSeq(inside, 5, Len(inside))
              ELSE inside)

\* the ProjectMatch returned when json.loads raises JSONDecodeError
FallbackProject(grant_focus) ==
    ProjectMatch(PyStr(<<"D", "a", "r", "u", "k", "a", " ", "C", "o", "n", "s", "e", "r", "v", "a", "t", "i", "o", "n", " ", "I", "n", "i", "t", "i", "a", "t", "i", "v", "e", " ", "-", " ">> \o grant_focus),
                 "generated", PyList(<<PyStr(grant_focus)>>), PyList(<<>>),
                 PyStr(<<"I", "n", "d", "i", "a">>),
                 PyStr(<<"A", "I", "-", "p", "o", "w", "e", "r", "e", "d", " ", "c", "o", "n", "s", "e", "r", "v", "a", "t", "i", "o", "n", " ", "p", "r", "o", "j", "e", "c", "t", " ", "f", "o", "c", "u", "s", "i", "n", "g", " ", "o", "n", " ">> \o grant_focus
                        \o <<" ", "u", "s", "i", "n", "g", " ", "D", "a", "r", "u", "k", "a", ".", "E", "a", "r", "t", "h", "'", "s", " ", "d", "M", "R", "V", " ", "p", "l", "a", "t", "f", "o", "r", "m", ".">>),
                 PyStr(<<"B", "i", "o", "a", "c", "o", "u", "s", "t", "i", "c", " ", "m", "o", "n", "i", "t", "o", "r", "i", "n", "g", ",", " ", "s", "a", "t", "e", "l", "l", "i", "t", "e", " ", "i", "m", "a", "g", "e", "r", "y", " ", "a", "n", "a", "l", "y", "s", "i", "s", ",", " ", "a", "n", "d", " ", "c", "o", "m", "m", "u", "n", "i", "t", "y", "-", "d", "r", "i", "v", "e", "n", " ", "d", "a", "t", "a", " ", "c", "o", "l", "l", "e", "c", "t", "i", "o", "n", ".">>),
                 PyList(<<PyStr(<<"S", "p", "e", "c", "i", "e", "s", " ", "p", "o", "p", "u", "l", "a", "t", "i", "o", "n", " ", "b", "a", "s", "e", "l", "i", "n", "e">>),
                          PyStr(<<"E", "c", "o", "s", "y", "s", "t", "e", "m", " ", "h", "e", "a", "l", "t", "h", " ", "m", "e", "t", "r", "i", "c", "s">>),
                          PyStr(<<"C", "o", "m", "m", "u", "n", "i", "t", "y", " ", "e", "n", "g", "a", "g", "e", "m", "e", "n", "t">>)>>),
                 8, PyNone)

\* the ProjectMatch made of the parsed response; a value that is not a
\* dict has no get
GeneratedProject(project_data) ==
    IF project_data.kind # "dict" THEN Raised("AttributeError")
    ELSE ProjectMatch(Get(project_data, <<"p", "r", "o", "j", "e", "c", "t", "_", "n", "a", "m", "e">>,
                          PyStr(<<"G", "e", "n", "e", "r", "a", "t", "e", "d", " ", "C", "o", "n", "s", "e", "r", "v", "a", "t", "i", "o", "n", " ", "P", "r", "o", "j", "e", "c", "t">>)),
                      "generated",
                      Get(project_data, <<"f", "o", "c", "u", "s", "_", "a", "r", "e", "a", "s">>, PyList(<<>>)),
                      Get(project_data, <<"t", "a", "r", "g", "e", "t", "_", "s", "p", "e", "c", "i", "e", "s">>, PyList(<<>>)),
                      Get(project_data, <<"l", "o", "c", "a", "t", "i", "o", "n">>, PyStr(<<"I", "n", "d", "i", "a">>)),
                      Get(project_data, <<"d", "e", "s", "c", "r", "i", "p", "t", "i", "o", "n">>, PyStr(<<>>)),
                      Get(project_data, <<"m", "e", "t", "h", "o", "d", "o", "l", "o", "g", "y">>, PyStr(<<>>)),
                      Get(project_data, <<"e", "x", "p", "e", "c", "t", "e", "d", "_", "o", "u", "t", "c", "o", "m", "e", "s">>, PyList(<<>>)),
                      10, PyNone)

\* the outcome of the try block: only json.JSONDecodeError is caught
ParsedOrFallback(project_data, grant_focus) ==
    IF project_data = JSONDecodeError THEN FallbackProject(grant_focus)
    ELSE GeneratedProject(project_data)

\* ProjectMatcher.generate_hypothetical_project(grant_focus, ...): the value
\* returned or the exception raised, and the calls made to the model
generate_hypothetical_project(model, grant_focus) ==
    [value |-> IF model.kind = "raised" THEN model
               ELSE ParsedOrFallback(json_loads(Unfenced(model.content)), grant_focus),
     calls |-> <<[call |-> "llm", arg |-> grant_focus]>>]

\* top_k of find_matching_project when the caller gives none
DefaultProjectTopK == 3

\* variant: the model is asked even when the search found a project
get_or_generate_project_AlwaysGenerates(client, model, grant_focus, force_generate) ==
    LET existing == find_matching_project(client, DefaultProjectTopK)
        generated == generate_hypothetical_project(model, grant_focus)
    IN  IF ~force_generate
        THEN [value |-> generated.value, client |-> existing.client,
              calls |-> existing.calls \o generated.calls]
        ELSE [value |-> generated.value, client |-> client,
              calls |-> generated.calls]

\* ProjectMatcher.get_or_generate_project(grant_focus, grant_requirements,
\* grant_context, force_generate): the value returned or the exception
\* raised, the store afterwards and the calls made, in order
get_or_generate_project(client, model, grant_focus, force_generate) ==
    LET existing == find_matching_project(client, DefaultProjectTopK)
        generated == generate_hypothetical_project(model, grant_focus)
    IN  IF ~force_generate /\ Truthy(existing.value) THEN existing
        ELSE IF ~force_generate
        THEN [value |-> generated.value, client |-> existing.client,
              calls |-> existing.calls \o generated.calls]
        ELSE [value |-> generated.value, client |-> client,
              calls |-> generated.calls]

(***************************************************************************)
(* Calls of the ProjectMatcher against a store that holds the project      *)
(* collection and a language model whose next response is fixed.           *)
(***************************************************************************)
\* metadata of the nearest project chunk: Chroma keeps str, int, float and
\* bool values
ProjectMetadatas ==
    {PyDict(<<>>),
     PyDict(<<<<<<"p", "r", "o", "j", "e", "c", "t", "_", "n", "a", "m", "e">>, PyStr(<<"P">>)>>,
              <<<<"f", "o", "c", "u", "s", "_", "a", "r", "e", "a", "s">>, PyStr(<<"a", ",", " ", "b", ",">>)>>,
              <<<<"l", "o", "c", "a", "t", "i", "o", "n">>, PyStr(<<"L">>)>>>>),
     PyDict(<<<<<<"f", "o", "c", "u", "s", "_", "a", "r", "e", "a", "s">>, PyInt(5)>>>>),
     PyDict(<<<<<<"e", "x", "p", "e", "c", "t", "e", "d", "_", "o", "u", "t", "c", "o", "m", "e", "s">>, PyInt(0)>>>>)}

\* distances of the project chunks, nearest first: scores 0.7, 0.6 and 0.5
ProjectDistances == {3, 4, 5}
ProjectRankings ==
    {ds \in UNION {[1..n -> ProjectDistances] : n \in 0..MaxHits} :
        \A i, j \in 1..Len(ds) : i < j => ds[i] <= ds[j]}

ProjectHits(ds, meta) ==
    [i \in 1..Len(ds) |->
        [content |-> <<"c", "p">>,
         id |-> <<"p", i>>,
         dist |-> ds[i],
         meta |-> IF i = 1 THEN meta ELSE PyDict(<<>>)]]

ProjectStores ==
    {[names |-> names,
      hits |-> (PROJECTS_COLLECTION :> ProjectHits(ds, meta)),
      failing |-> failing] :
        names \in {<<PROJECTS_COLLECTION>>},
        ds \in ProjectRankings,
        meta \in ProjectMetadatas,
        failing \in {{}, {PROJECTS_COLLECTION}}}
    \cup {[names |-> <<>>, hits |-> <<>>, failing |-> {}]}

GrantFocuses == {<<"f">>, <<"g", " ", "h">>}

\* texts the language model may return: the requested object, other JSON
\* values, text that is no JSON, and fenced answers
LLMTexts ==
    {<<"{", "\"", "p", "r", "o", "j", "e", "c", "t", "_", "n", "a", "m", "e", "\"", ":", " ", "\"", "P", "\"", ",", " ", "\"", "f", "o", "c", "u", "s", "_", "a", "r", "e", "a", "s", "\"", ":", " ", "[", "\"", "z", "\"", "]", "}">>,
     <<"{", "}">>, <<" ", "{", "}", " ", "\n">>, <<"[", "]">>, <<"1">>, <<"\"", "s", "\"">>, <<"n", "u", "l", "l">>, <<"x">>,
     Fence \o <<"j", "s", "o", "n", "\n", "{", "}", "\n">> \o Fence,
     Fence \o <<"\n", "[", "]", "\n">> \o Fence,
     Fence \o <<"\n", "{", "\"", "f", "o", "c", "u", "s", "_", "a", "r", "e", "a", "s", "\"", ":", " ", "[", "]", "}">>,
     Fence}

\* llm.invoke(messages) returns a message with the text, or raises
LLMs == {[kind |-> "response", content |-> text] : text \in LLMTexts}
            \cup {Raised("APIError")}

InitProject ==
    /\ pc = "call"
    /\ _client \in ProjectStores
    /\ request \in [grant_focus : GrantFocuses, force_generate : BOOLEAN,
                    top_k : 1..MaxHits]
    /\ result = PyNone
    /\ _conversations = <<>>
    /\ trace = <<>>
    /\ llm \in LLMs
    /\ ChunkerIdle

\* the outcome of a call: the value returned or the exception raised
Outcome(op, value) ==
    [kind |-> IF value.kind = "raised" THEN "raised" ELSE "returned",
     op |-> op, value |-> value]

FindMatchingProject ==
    /\ pc = "call"
    /\ LET got == find_matching_project(_client, request.top_k)
       IN  /\ result' = Outcome("find", got.value)
           /\ _client' = got.client
           /\ trace' = trace \o got.calls
    /\ pc' = "done"
    /\ UNCHANGED <<chunkvars, request, _conversations, llm>>

GenerateHypotheticalProject ==
    /\ pc = "call"
    /\ LET got == generate_hypothetical_project(llm, request.grant_focus)
       IN  /\ result' = Outcome("generate", got.value)
           /\ trace' = trace \o got.calls
    /\ pc' = "done"
    /\ UNCHANGED <<chunkvars, _client, request, _conversations, llm>>

GetOrGenerateProject ==
    /\ pc = "call"
    /\ LET got == get_or_generate_project(_client, llm, request.grant_focus,
                                          request.force_generate)
       IN  /\ result' = Outcome("get_or_generate", got.value)
           /\ _client' = got.client
           /\ trace' = trace \o got.calls
    /\ pc' = "done"
    /\ UNCHANGED <<chunkvars, request, _conversations, llm>>

NextProject ==
    \/ FindMatchingProject
    \/ GenerateHypotheticalProject
    \/ GetOrGenerateProject

SpecProject == InitProject /\ [][NextProject]_vars

\* the results of the project search of the request, best first
ProjectResults == search(_client, <<PROJECTS_COLLECTION>>, request.top_k).results

\* C14: find_matching_project returns None when the project search has no
\* result or its best score is below 0.6, and otherwise, whatever the
\* metadata of the best result, a ProjectMatch of type "existing" built
\* from the best result.
C14_MatchAtThreshold ==
    (pc = "done" /\ result.op = "find") =>
        IF ProjectResults = <<>> THEN result.value = PyNone
        ELSE IF ProjectResults[1].score < MATCH_THRESHOLD THEN result.value = PyNone
        ELSE /\ result.value.kind = "ProjectMatch"
             /\ result.value.project_type = "existing"
             /\ result.value.description = PyStr(ProjectResults[1].content)
             /\ result.value.relevance_score = ProjectResults[1].score
             /\ result.value.source_chunk_id = PyStr(ProjectResults[1].chunk_id)

\* the text is the JSON object the prompt asks for, with no Markdown
RequestedObject(text) == json_loads(Strip(text)).kind = "dict"

\* C15: when the text the model returns is not the requested JSON object
\* (invalid JSON, fenced JSON, or a JSON value that is not an object),
\* generate_hypothetical_project raises nothing and returns a ProjectMatch
\* of type "generated" whose focus_areas holds the requested focus.
C15_FallbackOnMalformedOutput ==
    (/\ pc = "done"
     /\ result.op = "generate"
     /\ llm.kind = "response"
     /\ ~RequestedObject(llm.content))
        => /\ result.kind = "returned"
           /\ result.value.kind = "ProjectMatch"
           /\ result.value.project_type = "generated"
           /\ result.value.focus_areas.kind = "list"
           /\ \E i \in 1..Len(result.value.focus_areas.items) :
                  result.value.focus_areas.items[i] = PyStr(request.grant_focus)

\* the positions of the calls of one kind in a trace
CallsOf(calls, kind) == {i \in 1..Len(calls) : calls[i].call = kind}

\* C16: a call of get_or_generate_project without force_generate searches
\* the project collection before any call of the language model and calls
\* the model only when the search yields no match; with force_generate the
\* search is not run; a call that returns, returns a ProjectMatch.
C16_SearchThenGenerate ==
    [][(pc = "call" /\ pc' = "done" /\ result'.op = "get_or_generate") =>
        /\ request.force_generate => CallsOf(trace', "store") = {}
        /\ ~request.force_generate =>
            /\ CallsOf(trace', "store") # {}
            /\ \A i \in CallsOf(trace', "llm") : \E j \in CallsOf(trace', "store") : j < i
            /\ CallsOf(trace', "llm") # {} =>
                   find_matching_project(_client, DefaultProjectTopK).value = PyNone
        /\ result'.kind = "returned" => result'.value.kind = "ProjectMatch"]_vars

\* a call without force_generate found no match and returned a generated project
C16_Witness ==
    /\ pc = "done"
    /\ result.op = "get_or_generate"
    /\ ~request.force_generate
    /\ result.kind = "returned"
    /\ result.value.project_type = "generated"
    /\ Len(trace) = 2
    /\ trace[1].call = "store"
    /\ trace[2].call = "llm"

(***************************************************************************)
(* ConversationMemory (src/rag/memory.py).  _conversations maps a website  *)
(* context to its sessions in the order of their creation.                 *)
(***************************************************************************)
max_sessions_per_website == 2

\* website_context or "default"
OrDefault(website_context) ==
    IF Truthy(website_context) THEN website_context.text ELSE <<"d", "e", "f", "a", "u", "l", "t">>

\* variant: the newest sessions go
_cleanup_old_sessions_KeepOldest(sessions) ==
    IF Len(sessions) > max_sessions_per_website
    THEN SubSeq(sessions, 1, max_sessions_per_website)
    ELSE sessions

\* ConversationMemory._cleanup_old_sessions: the oldest sessions go
_cleanup_old_sessions(sessions) ==
    IF Len(sessions) > max_sessions_per_website
    THEN SubSeq(sessions, Len(sessions) - max_sessions_per_website + 1, Len(sessions))
    ELSE sessions

HasSession(conversations, session_id, website) ==
    /\ website \in DOMAIN conversations
    /\ \E i \in 1..Len(conversations[website]) :
           conversations[website][i].session_id = session_id

\* ConversationMemory.get_or_create_session(session_id, website_context):
\* the memory afterwards
get_or_create_session(conversations, session_id, website_context) ==
    LET website == OrDefault(website_context)
        known == IF website \in DOMAIN conversations THEN conversations
                 ELSE conversations @@ (website :> <<>>)
    IN  IF HasSession(known, session_id, website) THEN known
        ELSE [known EXCEPT ![website] =
                _cleanup_old_sessions(
                    Append(@, [session_id |-> session_id, messages |-> <<>>]))]

\* the messages of a conversation, none for a session that does not exist
MessagesOf(conversations, session_id, website_context) ==
    LET website == OrDefault(website_context)
        at == {i \in 1..Len(conversations[website]) :
                  conversations[website][i].session_id = session_id}
    IN  IF ~HasSession(conversations, session_id, website) THEN <<>>
        ELSE conversations[website][Min(at)].messages

\* Conversation.format_for_prompt(max_messages)
RECURSIVE FormatMessages(_)
FormatMessages(history) ==
    IF history = <<>> THEN <<>>
    ELSE (IF history[1].role = "user" THEN <<"U", "s", "e", "r">> ELSE <<"A", "s", "s", "i", "s", "t", "a", "n", "t">>)
            \o <<":", " ">> \o history[1].content \o <<"\n", "\n">>
            \o FormatMessages(Tail(history))

format_for_prompt(messages, max_messages) ==
    LET history == SubSeq(messages, Max({1, Len(messages) - max_messages + 1}),
                          Len(messages))
    IN  IF history = <<>> THEN <<>>
        ELSE <<"\n", "=", "=", "=", " ", "C", "O", "N", "V", "E", "R", "S", "A", "T", "I", "O", "N", " ", "H", "I", "S", "T", "O", "R", "Y", " ", "=", "=", "=", "\n">> \o FormatMessages(history)
                \o <<"=", "=", "=", " ", "E", "N", "D", " ", "H", "I", "S", "T", "O", "R", "Y", " ", "=", "=", "=", "\n">>

\* ConversationMemory.get_formatted_history: the text, and the memory
\* afterwards (the lookup creates a session that does not exist)
get_formatted_history(conversations, session_id, website_context, max_messages) ==
    LET after == get_or_create_session(conversations, session_id, website_context)
    IN  [text |-> format_for_prompt(MessagesOf(after, session_id, website_context),
                                    max_messages),
         conversations |-> after]

\* variant: only the user message is kept
add_exchange_UserOnly(conversations, session_id, website_context, user_message, assistant_message) ==
    LET after == get_or_create_session(conversations, session_id, website_context)
        website == OrDefault(website_context)
    IN  [after EXCEPT ![website] =
            [i \in 1..Len(@) |->
                IF @[i].session_id = session_id
                THEN [@[i] EXCEPT !.messages =
                        @ \o <<[role |-> "user", content |-> user_message]>>]
                ELSE @[i]]]

\* ConversationMemory.add_exchange(session_id, website_context,
\* user_message, assistant_message): the memory afterwards
add_exchange(conversations, session_id, website_context, user_message, assistant_message) ==
    LET after == get_or_create_session(conversations, session_id, website_context)
        website == OrDefault(website_context)
    IN  [after EXCEPT ![website] =
            [i \in 1..Len(@) |->
                IF @[i].session_id = session_id
                THEN [@[i] EXCEPT !.messages =
                        @ \o <<[role |-> "user", content |-> user_message],
                               [role |-> "assistant", content |-> assistant_message]>>]
                ELSE @[i]]]

(***************************************************************************)
(* PromptTemplates (src/rag/prompts.py).  The fixed company context and    *)
(* the numbered instructions of the templates are abridged to "...".       *)
(***************************************************************************)
DARUKA_BRAND_CONTEXT ==
    <<"\n", "=", "=", "=", " ", "D", "A", "R", "U", "K", "A", ".", "E", "A", "R", "T", "H", " ", "C", "O", "M", "P", "A", "N", "Y", " ", "C", "O", "N", "T", "E", "X", "T", " ", "=", "=", "=", "\n", ".", ".", ".", "\n", "=", "=", "=", " ", "E", "N", "D", " ", "C", "O", "M", "P", "A", "N", "Y", " ", "C", "O", "N", "T", "E", "X", "T", " ", "=", "=", "=", "\n">>

\* PromptTemplates.get_rag_prompt(context, question, conversation_history)
get_rag_prompt(context, question, conversation_history) ==
    IF conversation_history # <<>>
    THEN <<"\n">> \o DARUKA_BRAND_CONTEXT \o <<"\n", "\n">> \o conversation_history
            \o <<"\n", "\n", "R", "e", "t", "r", "i", "e", "v", "e", "d", " ", "C", "o", "n", "t", "e", "x", "t", ":", "\n">> \o context
            \o <<"\n", "\n", "C", "u", "r", "r", "e", "n", "t", " ", "Q", "u", "e", "s", "t", "i", "o", "n", ":", " ">> \o question
            \o <<"\n", "\n", "I", "n", "s", "t", "r", "u", "c", "t", "i", "o", "n", "s", ":", "\n", ".", ".", ".", "\n", "\n", "R", "e", "s", "p", "o", "n", "s", "e", ":">>
    ELSE <<"\n">> \o DARUKA_BRAND_CONTEXT
            \o <<"\n", "\n", "R", "e", "t", "r", "i", "e", "v", "e", "d", " ", "C", "o", "n", "t", "e", "x", "t", ":", "\n">> \o context
            \o <<"\n", "\n", "U", "s", "e", "r", " ", "Q", "u", "e", "s", "t", "i", "o", "n", ":", " ">> \o question
            \o <<"\n", "\n", "I", "n", "s", "t", "r", "u", "c", "t", "i", "o", "n", "s", ":", "\n", ".", ".", ".", "\n", "\n", "R", "e", "s", "p", "o", "n", "s", "e", ":">>

(***************************************************************************)
(* RAGRetriever.format_context and get_sources_for_response, and RAGChain  *)
(* (src/rag/chain.py).                                                     *)
(***************************************************************************)
RECURSIVE ContextParts(_, _)
ContextParts(documents, i) ==
    IF i > Len(documents) THEN <<>>
    ELSE <<<<"-", "-", "-", " ", "D", "o", "c", "u", "m", "e", "n", "t", " ">> \o Digits(i) \o <<" ", "[", "S", "o", "u", "r", "c", "e", ":", " ">>
            \o ToStr(documents[i].source)
            \o (IF Truthy(documents[i].page)
                THEN <<",", " ", "P", "a", "g", "e", " ">> \o ToStr(documents[i].page) ELSE <<>>)
            \o <<"]", " ", "-", "-", "-", "\n">> \o documents[i].content>>
         \o ContextParts(documents, i + 1)

\* RAGRetriever.format_context(documents)
format_context(documents) ==
    IF documents = <<>> THEN <<"N", "o", " ", "r", "e", "l", "e", "v", "a", "n", "t", " ", "d", "o", "c", "u", "m", "e", "n", "t", "s", " ", "f", "o", "u", "n", "d", ".">>
    ELSE Join(ContextParts(documents, 1), <<"\n", "\n">>)

\* content[:500] + "..." for a longer content
Truncated(text) ==
    IF Len(text) > 500 THEN SubSeq(text, 1, 500) \o <<".", ".", ".">> ELSE text

\* RAGRetriever.get_sources_for_response(documents)
get_sources_for_response(documents) ==
    [i \in 1..Len(documents) |->
        [content |-> Truncated(documents[i].content),
         source |-> documents[i].source,
         page |-> documents[i].page,
         chunk_id |-> documents[i].chunk_id,
         score |-> documents[i].score]]

\* the calls a chain makes around the model: the history read, the model
\* call with its user prompt, the exchange appended
ChainCalls(model, session_id, user_prompt) ==
    (IF Truthy(session_id) THEN <<[call |-> "history", arg |-> session_id.text]>> ELSE <<>>)
        \o <<[call |-> "llm", arg |-> user_prompt]>>
        \o (IF Truthy(session_id) /\ model.kind # "raised"
            THEN <<[call |-> "append", arg |-> session_id.text]>> ELSE <<>>)

\* RAGChain.query_with_custom_context(question, context, session_id,
\* website_context): the answer returned or the exception of the model
\* raised, the memory afterwards and the calls made
query_with_custom_context(conversations, model, question, context, session_id, website_context) ==
    LET website == PyStr(OrDefault(website_context))
        Answer(read) ==
            [value |-> IF model.kind = "raised" THEN model ELSE PyStr(model.content),
             conversations |->
                IF Truthy(session_id) /\ model.kind # "raised"
                THEN add_exchange(read.conversations, session_id.text, website,
                                  question, model.content)
                ELSE read.conversations,
             calls |-> ChainCalls(model, session_id,
                                  get_rag_prompt(context, question, read.text))]
    IN  Answer(IF Truthy(session_id)
               THEN get_formatted_history(conversations, session_id.text, website, 6)
               ELSE [text |-> <<>>, conversations |-> conversations])

\* RAGChain.query(question, website_context, top_k, session_id): the
\* RAGResponse returned or the exception raised, the store and the memory
\* afterwards and the calls made
RAGChain_query(client, conversations, model, question, website_context, top_k, session_id) ==
    LET Respond(got, answered) ==
            [value |-> IF answered.value.kind = "raised" THEN answered.value
                       ELSE [kind |-> "RAGResponse",
                             answer |-> answered.value.text,
                             sources |-> get_sources_for_response(got.documents),
                             query |-> question,
                             documents_used |-> Len(got.documents),
                             session_id |-> session_id],
             client |-> got.client,
             conversations |-> answered.conversations,
             calls |-> StoreCalls(_get_target_collections(client, website_context))
                          \o answered.calls]
        Answer(got) ==
            Respond(got, query_with_custom_context(conversations, model, question,
                                                   format_context(got.documents),
                                                   session_id, website_context))
    IN  Answer(retrieve(client, website_context, top_k, DefaultTopK))

(***************************************************************************)
(* Endpoints of the sessions and admin routes (app/routes/sessions.py,     *)
(* app/routes/admin.py).  A response is a status code and a body.          *)
(***************************************************************************)
Response(op, status, value) ==
    [kind |-> "http", op |-> op, status |-> status, value |-> value]

\* GET /sessions/{session_id}: the response and the memory afterwards
get_session(conversations, session_id, website_context) ==
    LET after == get_or_create_session(conversations, session_id, website_context)
        messages == MessagesOf(after, session_id, website_context)
    IN  [status |-> 200,
         value |-> [session_id |-> session_id,
                    website_context |-> website_context.text,
                    message_count |-> Len(messages),
                    messages |-> [i \in 1..Len(messages) |->
                                    [role |-> messages[i].role,
                                     content |-> IF Len(messages[i].content) > 200
                                                 THEN SubSeq(messages[i].content, 1, 200) \o <<".", ".", ".">>
                                                 ELSE messages[i].content]]],
         conversations |-> after]

\* GET /collections/{collection_name}: the response and the store afterwards
view_collection(client, collection_name, limit) ==
    LET opened == get_or_create_collection(client, collection_name)
        stored == IF collection_name \in DOMAIN opened.hits
                  THEN opened.hits[collection_name] ELSE <<>>
        shown == SubSeq(stored, 1, Min({limit, Len(stored)}))
    IN  IF collection_name \in client.failing
        THEN [status |-> 500, value |-> Raised("StoreError"), client |-> opened]
        ELSE [status |-> 200,
              value |-> [collection |-> collection_name,
                         total_in_collection |-> Len(stored),
                         showing |-> Len(shown),
                         chunks |-> [i \in 1..Len(shown) |->
                                        [id |-> shown[i].id,
                                         content |-> IF Len(shown[i].content) > 300
                                                     THEN SubSeq(shown[i].content, 1, 300) \o <<".", ".", ".">>
                                                     ELSE shown[i].content,
                                         metadata |-> shown[i].meta]]],
              client |-> opened]

\* DELETE /collections/{collection_name}?confirm=...: the response and the
\* store afterwards
delete_collection(client, collection_name, confirm) ==
    LET listed == list_collections(client)
        kept == SelectSeq(listed, LAMBDA name : name # collection_name)
    IN  IF ~confirm
        THEN [status |-> 400, value |-> PyNone, client |-> client]
        ELSE IF ~\E i \in 1..Len(listed) : listed[i] = collection_name
        THEN [status |-> 404, value |-> PyNone, client |-> client]
        ELSE IF collection_name \in client.failing
        THEN [status |-> 500, value |-> PyNone, client |-> client]
        ELSE [status |-> 200,
              value |-> [collection |-> collection_name],
              client |-> [client EXCEPT
                            !.names = kept,
                            !.hits = [name \in DOMAIN @ \ {collection_name} |-> @[name]]]]

(***************************************************************************)
(* POST /query (app/routes/query.py) and its request model                 *)
(* (app/models.py).                                                        *)
(***************************************************************************)
\* QueryRequest(**body): the declared fields query, website_context and
\* top_k; pydantic drops every other key of the body
QueryRequest(body) ==
    [query |-> body.query, website_context |-> body.website_context,
     top_k |-> body.top_k]

\* obj.name: AttributeError for an attribute the object does not have
GetAttr(obj, name) ==
    IF name \in DOMAIN obj THEN obj[name] ELSE Raised("AttributeError")

project_keywords ==
    <<<<"p", "r", "o", "j", "e", "c", "t">>, <<"p", "r", "o", "p", "o", "s", "a", "l">>, <<"m", "e", "t", "h", "o", "d", "o", "l", "o", "g", "y">>, <<"a", "p", "p", "r", "o", "a", "c", "h">>, <<"p", "l", "a", "n">>,
      <<"d", "e", "s", "c", "r", "i", "b", "e">>, <<"o", "b", "j", "e", "c", "t", "i", "v", "e", "s">>, <<"o", "u", "t", "c", "o", "m", "e", "s">>, <<"c", "o", "n", "s", "e", "r", "v", "a", "t", "i", "o", "n">>, <<"m", "o", "n", "i", "t", "o", "r", "i", "n", "g">>>>

\* str.upper() and str.title(), on the letters the model's texts use
Upper(c) ==
    IF \E u \in {"Q", "A", "W", "P"} : Lower(u) = c
    THEN CHOOSE u \in {"Q", "A", "W", "P"} : Lower(u) = c
    ELSE c
IsLetter(c) ==
    \E k \in 1..26 : <<"a", "b", "c", "d", "e", "f", "g", "h", "i", "j", "k", "l", "m", "n", "o", "p", "q", "r", "s", "t", "u", "v", "w", "x", "y", "z">>[k] = Lower(c)
Title(s) ==
    [i \in 1..Len(s) |->
        IF i = 1 \/ ~IsLetter(s[i - 1]) THEN Upper(s[i]) ELSE Lower(s[i])]

\* ', '.join(value): the items of a list of strings, or the characters of
\* a string
JoinItems(value) ==
    IF value.kind = "str" THEN PyStr(Join([i \in 1..Len(value.text) |-> <<value.text[i]>>], <<",", " ">>))
    ELSE IF value.kind = "list" /\ \A i \in 1..Len(value.items) : value.items[i].kind = "str"
    THEN PyStr(Join([i \in 1..Len(value.items) |-> value.items[i].text], <<",", " ">>))
    ELSE Raised("TypeError")

\* the project block put before the retrieved context
ProjectContext(project) ==
    LET focus == JoinItems(project.focus_areas)
        outcomes == JoinItems(project.expected_outcomes)
    IN  IF focus.kind = "raised" THEN focus
        ELSE IF outcomes.kind = "raised" THEN outcomes
        ELSE PyStr(<<"\n", "=", "=", "=", " ">>
                \o (IF project.project_type = "existing" THEN <<"E", "X", "I", "S", "T", "I", "N", "G">> ELSE <<"P", "R", "O", "P", "O", "S", "E", "D">>)
                \o <<" ", "D", "A", "R", "U", "K", "A", " ", "P", "R", "O", "J", "E", "C", "T", " ", "=", "=", "=", "\n", "P", "r", "o", "j", "e", "c", "t", ":", " ">> \o ToStr(project.name)
                \o <<"\n", "T", "y", "p", "e", ":", " ">>
                \o (IF project.project_type = "existing" THEN <<"E", "X", "I", "S", "T", "I", "N", "G">> ELSE <<"G", "E", "N", "E", "R", "A", "T", "E", "D">>)
                \o <<"\n", "F", "o", "c", "u", "s", ":", " ">> \o focus.text
                \o <<"\n", "L", "o", "c", "a", "t", "i", "o", "n", ":", " ">> \o ToStr(project.location)
                \o <<"\n", "D", "e", "s", "c", "r", "i", "p", "t", "i", "o", "n", ":", " ">> \o ToStr(project.description)
                \o <<"\n", "M", "e", "t", "h", "o", "d", "o", "l", "o", "g", "y", ":", " ">> \o ToStr(project.methodology)
                \o <<"\n", "E", "x", "p", "e", "c", "t", "e", "d", " ", "O", "u", "t", "c", "o", "m", "e", "s", ":", " ">> \o outcomes.text
                \o <<"\n", "=", "=", "=", " ", "E", "N", "D", " ", "P", "R", "O", "J", "E", "C", "T", " ", "=", "=", "=", "\n", "\n", "\n">>)

\* the sources of the response: the project, when there is one, before the
\* retrieved documents
QuerySources(documents, project) ==
    (IF project.kind # "ProjectMatch" THEN <<>>
     ELSE <<[content |-> <<"P", "r", "o", "j", "e", "c", "t", ":", " ">> \o ToStr(project.name) \o <<" ", "-", " ">>
                            \o SubSeq(ToStr(project.description), 1,
                                      Min({300, Len(ToStr(project.description))}))
                            \o <<".", ".", ".">>,
             source |-> PyStr(PROJECTS_COLLECTION),
             page |-> PyNone,
             chunk_id |-> IF Truthy(project.source_chunk_id)
                          THEN project.source_chunk_id.text ELSE <<"p", "r", "o", "j", "e", "c", "t", "_", "m", "a", "t", "c", "h">>,
             score |-> project.relevance_score]>>)
    \o get_sources_for_response(documents)

\* query_documents(request): the status and body of the response, the
\* store and the memory afterwards and the calls made.  Every exception
\* raised in the handler is answered with status 500.
query_documents(client, conversations, model, body) ==
    LET req == QueryRequest(body)
        session_id == GetAttr(req, "session_id")
        website == PyStr(OrDefault(req.website_context))
        is_project_query ==
            \E k \in 1..Len(project_keywords) :
                Contains(LowerStr(req.query), project_keywords[k])
        grant_focus == IF Truthy(req.website_context)
                       THEN Title(Replace(req.website_context.text, "_", <<" ">>))
                       ELSE <<"C", "o", "n", "s", "e", "r", "v", "a", "t", "i", "o", "n">>
        Respond(got, matching_project, answered, searched, after_search) ==
            IF answered.value.kind = "raised"
            THEN [status |-> 500, value |-> answered.value, client |-> after_search,
                  conversations |-> answered.conversations,
                  calls |-> searched \o answered.calls]
            ELSE [status |-> 200,
                  value |-> [answer |-> answered.value.text,
                             sources |-> QuerySources(got.documents, matching_project),
                             query |-> req.query],
                  client |-> after_search, conversations |-> answered.conversations,
                  calls |-> searched \o answered.calls]
        Answer(read, got, matching_project, project_context, searched, after_search) ==
            IF matching_project.kind = "raised" \/ project_context.kind = "raised"
            THEN [status |-> 500,
                  value |-> IF matching_project.kind = "raised" THEN matching_project
                            ELSE project_context,
                  client |-> after_search, conversations |-> read.conversations,
                  calls |-> searched]
            ELSE Respond(got, matching_project,
                         query_with_custom_context(read.conversations, model, req.query,
                                                   project_context.text
                                                      \o format_context(got.documents),
                                                   session_id, req.website_context),
                         searched, after_search)
        WithProject(read, got, matching_project, searched, after_search) ==
            Answer(read, got, matching_project,
                   IF matching_project.kind = "ProjectMatch"
                   THEN ProjectContext(matching_project) ELSE PyStr(<<>>),
                   searched, after_search)
        Match(read, got, found, generated) ==
            WithProject(read, got,
                        IF ~is_project_query THEN PyNone
                        ELSE IF Truthy(found.value) THEN found.value
                        ELSE generated.value,
                        StoreCalls(_get_target_collections(client, req.website_context))
                           \o (IF is_project_query THEN found.calls ELSE <<>>)
                           \o (IF is_project_query /\ ~Truthy(found.value)
                               THEN generated.calls ELSE <<>>),
                        IF is_project_query THEN found.client ELSE got.client)
        Search(read, got) ==
            Match(read, got, find_matching_project(got.client, 2),
                  generate_hypothetical_project(model, grant_focus))
    IN  IF session_id.kind = "raised"
        THEN [status |-> 500, value |-> session_id, client |-> client,
              conversations |-> conversations, calls |-> <<>>]
        ELSE Search(IF Truthy(session_id)
                    THEN get_formatted_history(conversations, session_id.text, website, 6)
                    ELSE [text |-> <<>>, conversations |-> conversations],
                    retrieve(client, req.website_context, req.top_k, req.top_k))

(***************************************************************************)
(* A server that answers a few requests one after the other: the chain,    *)
(* the conversation memory and the store are shared by the requests.       *)
(***************************************************************************)
MaxRequests == 2

Questions == {<<"q", "1">>, <<"p", "l", "a", "n", " ", "b">>}
ChainQuestions == {<<"q", "1">>}
SessionIds == {PyNone, PyStr(<<>>), PyStr(<<"s", "1">>), PyStr(<<"s", "3">>)}
ChatWebsites == {PyNone, PyStr(<<"w", "e", "b", "s", "i", "t", "e", "_", "a">>)}
CustomContexts == {<<"c", "t", "x">>}

ChatStores ==
    {[names |-> <<>>, hits |-> <<>>, failing |-> {}]}
    \cup
    {[names |-> <<DARUKA_COLLECTION, <<"w", "e", "b", "s", "i", "t", "e", "_", "a">>>>,
      hits |-> (DARUKA_COLLECTION :> HitsOf(DARUKA_COLLECTION, <<3>>))
                  @@ (<<"w", "e", "b", "s", "i", "t", "e", "_", "a">> :> HitsOf(<<"w", "e", "b", "s", "i", "t", "e", "_", "a">>, <<3, 5>>)),
      failing |-> failing] : failing \in {{}, {DARUKA_COLLECTION}}}

\* the memory at the start: empty, or a default website with a session
\* of one exchange and an empty one
ChatMemories ==
    {<<>>,
     (<<"d", "e", "f", "a", "u", "l", "t">> :> <<[session_id |-> <<"s", "1">>,
                      messages |-> <<[role |-> "user", content |-> <<"q", "0">>],
                                     [role |-> "assistant", content |-> <<"a", "0">>]>>],
                     [session_id |-> <<"s", "2">>, messages |-> <<>>]>>)}

ChatLLMs == {[kind |-> "response", content |-> <<"a", "1">>], Raised("APIError")}

InitChat ==
    /\ pc = "serve"
    /\ _client \in ChatStores
    /\ request = PyNone
    /\ result = PyNone
    /\ _conversations \in ChatMemories
    /\ trace = <<>>
    /\ llm \in ChatLLMs
    /\ ChunkerIdle

\* a request is accepted while the server has served fewer than MaxRequests
Accept ==
    /\ pc = "serve"
    /\ Cardinality({i \in 1..Len(trace) : trace[i].call = "request"}) < MaxRequests
    /\ pc' = pc

Entered(op) == <<[call |-> "request", arg |-> op]>>

ChainQuery ==
    \E question \in ChainQuestions, website_context \in ChatWebsites,
       session_id \in SessionIds, top_k \in {MaxHits} :
        /\ Accept
        /\ LET got == RAGChain_query(_client, _conversations, llm, question,
                                     website_context, top_k, session_id)
           IN  /\ request' = [op |-> "query", question |-> question,
                              website_context |-> website_context,
                              session_id |-> session_id, top_k |-> top_k]
               /\ result' = Outcome("query", got.value)
               /\ _client' = got.client
               /\ _conversations' = got.conversations
               /\ trace' = trace \o Entered(<<"q", "u", "e", "r", "y">>) \o got.calls
        /\ UNCHANGED <<chunkvars, llm>>

QueryWithCustomContext ==
    \E question \in ChainQuestions, website_context \in ChatWebsites,
       session_id \in SessionIds, context \in CustomContexts :
        /\ Accept
        /\ LET got == query_with_custom_context(_conversations, llm, question, context,
                                                session_id, website_context)
           IN  /\ request' = [op |-> "query_with_custom_context", question |-> question,
                              website_context |-> website_context,
                              session_id |-> session_id, context |-> context]
               /\ result' = Outcome("query_with_custom_context", got.value)
               /\ _conversations' = got.conversations
               /\ trace' = trace \o Entered(<<"q", "u", "e", "r", "y", "_", "w", "i", "t", "h", "_", "c", "u", "s", "t", "o", "m", "_", "c", "o", "n", "t", "e", "x", "t">>) \o got.calls
        /\ UNCHANGED <<chunkvars, _client, llm>>

PathSessionIds == {<<"s", "1">>, <<"s", "3">>}
PathWebsites == {PyStr(<<"d", "e", "f", "a", "u", "l", "t">>), PyStr(<<"w", "e", "b", "s", "i", "t", "e", "_", "a">>)}
PathCollections == {DARUKA_COLLECTION, <<"w", "e", "b", "s", "i", "t", "e", "_", "a">>, <<"z", "z", "z">>}

GetSession ==
    \E session_id \in PathSessionIds, website_context \in PathWebsites :
        /\ Accept
        /\ LET got == get_session(_conversations, session_id, website_context)
           IN  /\ request' = [op |-> "get_session", session_id |-> PyStr(session_id),
                              website_context |-> website_context]
               /\ result' = Response("get_session", got.status, got.value)
               /\ _conversations' = got.conversations
               /\ trace' = trace \o Entered(<<"g", "e", "t", "_", "s", "e", "s", "s", "i", "o", "n">>)
        /\ UNCHANGED <<chunkvars, _client, llm>>

ViewCollection ==
    \E collection_name \in PathCollections, limit \in {MaxHits} :
        /\ Accept
        /\ LET got == view_collection(_client, collection_name, limit)
           IN  /\ request' = [op |-> "view_collection",
                              collection_name |-> collection_name, limit |-> limit]
               /\ result' = Response("view_collection", got.status, got.value)
               /\ _client' = got.client
               /\ trace' = trace \o Entered(<<"v", "i", "e", "w", "_", "c", "o", "l", "l", "e", "c", "t", "i", "o", "n">>)
                              \o StoreCalls(<<collection_name>>)
        /\ UNCHANGED <<chunkvars, _conversations, llm>>

DeleteCollection ==
    \E collection_name \in PathCollections, confirm \in BOOLEAN :
        /\ Accept
        /\ LET got == delete_collection(_client, collection_name, confirm)
           IN  /\ request' = [op |-> "delete_collection",
                              collection_name |-> collection_name, confirm |-> confirm]
               /\ result' = Response("delete_collection", got.status, got.value)
               /\ _client' = got.client
               /\ trace' = trace \o Entered(<<"d", "e", "l", "e", "t", "e", "_", "c", "o", "l", "l", "e", "c", "t", "i", "o", "n">>)
        /\ UNCHANGED <<chunkvars, _conversations, llm>>

\* the JSON bodies sent to POST /query: a client may send a session_id
QueryBodies ==
    [query : Questions, website_context : ChatWebsites, top_k : {MaxHits},
     session_id : {PyNone, PyStr(<<"s", "1">>)}]

QueryDocuments ==
    \E body \in QueryBodies :
        /\ Accept
        /\ LET got == query_documents(_client, _conversations, llm, body)
           IN  /\ request' = [op |-> "query_documents", body |-> body]
               /\ result' = Response("query_documents", got.status, got.value)
               /\ _client' = got.client
               /\ _conversations' = got.conversations
               /\ trace' = trace \o Entered(<<"q", "u", "e", "r", "y", "_", "d", "o", "c", "u", "m", "e", "n", "t", "s">>) \o got.calls
        /\ UNCHANGED <<chunkvars, llm>>

NextChat ==
    \/ ChainQuery
    \/ QueryWithCustomContext
    \/ GetSession
    \/ ViewCollection
    \/ DeleteCollection
    \/ QueryDocuments

SpecChat == InitChat /\ [][NextChat]_vars

\* the calls the last request made
LastCalls ==
    LET starts == {i \in 1..Len(trace) : trace[i].call = "request"}
    IN  IF starts = {} THEN <<>> ELSE SubSeq(trace, Max(starts) + 1, Len(trace))

ChainCall == request' # PyNone /\ request'.op \in {"query", "query_with_custom_context"}

\* C17: a call of RAGChain.query or query_with_custom_context calls the
\* language model exactly once.  With a session_id (a non-empty one: the
\* chain tests "if session_id") and a model that returns, the conversation
\* of (session_id, website_context or "default") gains exactly the user
\* question and then the assistant answer, appended after the model call,
\* which comes after the history read.  Without a session_id the memory is
\* left as it was.
C17_OneModelCallThenAppend ==
    [][(Len(trace') > Len(trace) /\ ChainCall) =>
        LET calls == SubSeq(trace', Len(trace) + 2, Len(trace'))
            given == Truthy(request'.session_id)
            website == PyStr(OrDefault(request'.website_context))
        IN  /\ Cardinality(CallsOf(calls, "llm")) = 1
            /\ (given /\ result'.kind = "returned") =>
                /\ MessagesOf(_conversations', request'.session_id.text, website)
                    = MessagesOf(_conversations, request'.session_id.text, website)
                        \o <<[role |-> "user", content |-> request'.question],
                             [role |-> "assistant", content |-> llm.content]>>
                /\ Cardinality(CallsOf(calls, "append")) = 1
                /\ Cardinality(CallsOf(calls, "history")) = 1
                /\ \A h \in CallsOf(calls, "history"), m \in CallsOf(calls, "llm"),
                      a \in CallsOf(calls, "append") : h < m /\ m < a
            /\ ~given => _conversations' = _conversations]_vars

\* a second exchange was appended to a session that held a first one
C17_Witness ==
    /\ request # PyNone
    /\ request.op = "query"
    /\ result.kind = "returned"
    /\ Truthy(request.session_id)
    /\ Len(MessagesOf(_conversations, request.session_id.text,
                      PyStr(OrDefault(request.website_context)))) = 4
    /\ Cardinality(CallsOf(LastCalls, "llm")) = 1

\* the request just served looked up a session or a collection that did
\* not exist
MissingLookup ==
    /\ Len(trace') > Len(trace)
    /\ \/ /\ request'.op = "get_session"
          /\ ~HasSession(_conversations, request'.session_id.text,
                         OrDefault(request'.website_context))
       \/ /\ request'.op = "view_collection"
          /\ ~\E i \in 1..Len(_client.names) : _client.names[i] = request'.collection_name
       \/ /\ request'.op = "delete_collection"
          /\ request'.confirm
          /\ ~\E i \in 1..Len(_client.names) : _client.names[i] = request'.collection_name

\* C19: a lookup of a session or of a collection that does not exist is
\* answered with a "not found" response (404), which is neither a success
\* nor the error of a failed store or model call.
C19_MissingIsNotFound ==
    [][MissingLookup => result'.status = 404]_vars

\* the request just served is a POST /query that carries a session_id,
\* and the language model answers
SessionQuery ==
    /\ Len(trace') > Len(trace)
    /\ request'.op = "query_documents"
    /\ Truthy(request'.body.session_id)
    /\ llm.kind = "response"

\* C20: a POST /query that carries a session_id succeeds and stores its
\* question and answer under (session_id, website_context or "default"),
\* and when the request before it was a POST /query of the same session
\* and website, its prompt holds the question and answer of that request.
C20_QueryKeepsSessionMemory ==
    [][SessionQuery =>
        LET calls == SubSeq(trace', Len(trace) + 2, Len(trace'))
            session_id == request'.body.session_id.text
            website == PyStr(OrDefault(request'.body.website_context))
        IN  /\ result'.status = 200
            /\ MessagesOf(_conversations', session_id, website)
                = MessagesOf(_conversations, session_id, website)
                    \o <<[role |-> "user", content |-> request'.body.query],
                         [role |-> "assistant", content |-> llm.content]>>
            /\ (/\ request # PyNone
                /\ request.op = "query_documents"
                /\ request.body.session_id = request'.body.session_id
                /\ request.body.website_context = request'.body.website_context)
                 => \E i \in CallsOf(calls, "llm") :
                        /\ Contains(calls[i].arg, request.body.query)
                        /\ Contains(calls[i].arg, llm.content)]_vars

(***************************************************************************)
(* The Q&A chunker called on its own (src/chunking/qa_chunker.py): the     *)
(* extraction of pairs from a text and the chunking of spreadsheet rows.   *)
(***************************************************************************)
MaxQAFrags == 4

\* the pieces of the texts: a marker of one of the three patterns followed
\* by a character, and white space
QAFragments ==
    {<<"Q", ":", "x">>, <<"A", ":", "y">>, <<"Q", "u", "e", "s", "t", "i", "o", "n", ":", "x">>, <<"A", "n", "s", "w", "e", "r", ":", "y">>,
     <<"*", "*", "Q", "u", "e", "s", "t", "i", "o", "n", "*", "*", ":", "x">>, <<"*", "*", "A", "n", "s", "w", "e", "r", "*", "*", ":", "y">>, <<" ">>}

QATexts == {Concat(fs) : fs \in UNION {[1..n -> QAFragments] : n \in 0..MaxQAFrags}}

\* the column names of a spreadsheet: the question and the answer column
\* in either case, and one other column
QuestionColumns == {<<"q", "u", "e", "s", "t", "i", "o", "n">>, <<"Q", "u", "e", "s", "t", "i", "o", "n">>}
AnswerColumns == {<<"a", "n", "s", "w", "e", "r">>, <<"A", "n", "s", "w", "e", "r">>}
OtherColumns == {<<"i", "d">>, <<"c", "a", "t", "e", "g", "o", "r", "y">>, <<"f", "a", "q">>}

\* the orders of three columns
ColumnOrders ==
    {<<1, 2, 3>>, <<1, 3, 2>>, <<2, 1, 3>>, <<2, 3, 1>>, <<3, 1, 2>>, <<3, 2, 1>>}

\* a row of the cells x, y and z under the columns q, a and o, in an order
SheetRow(q, a, o, order) ==
    LET cells == <<<<q, PyStr(<<"x">>)>>, <<a, PyStr(<<" ", "y">>)>>, <<o, PyStr(<<"z">>)>>>>
    IN  PyDict([i \in 1..3 |-> cells[order[i]]])

SheetRows ==
    {PyList([i \in 1..n |-> SheetRow(q, a, o, order)]) :
        q \in QuestionColumns, a \in AnswerColumns, o \in OtherColumns,
        order \in ColumnOrders, n \in 1..MaxListLen}
        \cup {PyList(<<PyDict(<<<<q, PyStr(<<"x">>)>>, <<a, PyStr(<<"y">>)>>>>)>>) :
                q \in QuestionColumns, a \in AnswerColumns}

InitQA ==
    /\ pc = "call"
    /\ content \in {PyStr(t) : t \in QATexts} \cup SheetRows
    /\ content_type = "qa"
    /\ source = "doc"
    /\ hierarchical_threshold = ThresholdHigh
    /\ hash_seed = 0
    /\ result = PyNone
    /\ previous = PyNone
    /\ pages = <<>>
    /\ page_no = 0
    /\ all_chunks = <<>>
    /\ stored_ids = <<>>
    /\ ServiceIdle

\* QAChunker()._extract_qa_pairs(text)
ExtractQAPairs ==
    /\ pc = "call"
    /\ content.kind = "str"
    /\ result' = [kind |-> "pairs", pairs |-> _extract_qa_pairs(content.text)]
    /\ pc' = "done"
    /\ UNCHANGED <<chunkvars, servicevars>>

\* QAChunker().chunk_from_rows(rows, source=source)
ChunkFromRows ==
    /\ pc = "call"
    /\ content.kind = "list"
    /\ result' = chunk_from_rows(content.items, source, PyNone, EmptyMetadata)
    /\ pc' = "done"
    /\ UNCHANGED <<chunkvars, servicevars>>

NextQA == ExtractQAPairs \/ ChunkFromRows

SpecQA == InitQA /\ [][NextQA]_vars

\* the pairs each pattern finds in a text, in priority order
PatternPairs(text) ==
    <<FindAllQA(text, 1, WQ, WA, WQ),
      FindAllQA(text, 1, WQuestion, WAnswer, WQuestion),
      FindAllQA(text, 1, WBoldQuestion, WBoldAnswer, WBoldQuestionStop)>>

\* the pairs of the first pattern that yields any
FirstPatternPairs(text) ==
    LET yielding == {k \in 1..3 : PatternPairs(text)[k] # <<>>}
    IN  IF yielding = {} THEN <<>> ELSE PatternPairs(text)[Min(yielding)]

\* C21: the extraction returns the pairs of the first pattern, in priority
\* order, that yields any pair, and no pair of a later pattern.
C21_FirstPatternWins ==
    (pc = "done" /\ result.kind = "pairs")
        => result.pairs = FirstPatternPairs(content.text)

\* the value of the column of a row whose lower-cased name is the given one
ColumnValue(row, name) ==
    LET at == {i \in 1..Len(row.items) : LowerStr(row.items[i][1]) = name}
    IN  Strip(row.items[Min(at)][2].text)

\* C28: for rows with a "question" and an "answer" column (in any case) and
\* other columns in any order, each chunk's question is the value of the
\* question column and its answer the value of the answer column.
C28_QuestionAndAnswerColumns ==
    (pc = "done" /\ content.kind = "list")
        => /\ result.kind = "list"
           /\ Len(result.items) = Len(content.items)
           /\ \A i \in 1..Len(result.items) :
                /\ result.items[i].question = ColumnValue(content.items[i], <<"q", "u", "e", "s", "t", "i", "o", "n">>)
                /\ result.items[i].answer = ColumnValue(content.items[i], <<"a", "n", "s", "w", "e", "r">>)

(***************************************************************************)
(* The dimensions recorded in an ExtractedTable.                           *)
(***************************************************************************)
\* the header cells of a markdown table: the cells of its first line
HeaderCellsOf(markdown) ==
    IF markdown = <<>> THEN <<>> ELSE Cells(SplitChar(markdown, "\n")[1])

\* the tables of a state: the table handed to the router, made by
\* convert_to_markdown or extract_tables_from_text, and the table of every
\* chunk returned, the parts of a split among them
TablesOfState ==
    (IF content.kind = "table" THEN {content} ELSE {})
        \cup (IF pc = "done" /\ result.kind = "result"
              THEN {result.chunks[i].table :
                      i \in {j \in 1..Len(result.chunks) : "table" \in DOMAIN result.chunks[j]}}
              ELSE {})

\* C22: every ExtractedTable has rows equal to the number of data rows of
\* its markdown and columns equal to the number of header cells of its
\* markdown.
C22_TableDimensions ==
    \A table \in TablesOfState :
        /\ table.rows = Len(DataLines(table.markdown))
        /\ table.columns = Len(HeaderCellsOf(table.markdown))

(***************************************************************************)
(* Two threads that call add_exchange on one ConversationMemory with the   *)
(* same session_id and website_context (src/rag/memory.py).  The class     *)
(* holds no lock, so a thread may be suspended between any two statements  *)
(* of add_exchange and get_or_create_session.  pc maps a thread to the     *)
(* statement it executes next, request to the messages of its exchange and *)
(* result to its local variable conversation: the thread that created the  *)
(* Conversation object it refers to, 0 for an object of the initial        *)
(* memory.  The sessions of a website are kept in the order of created_at. *)
(***************************************************************************)
Threads == {1, 2}

SharedSession == <<"s", "1">>
SharedWebsite == <<"d", "e", "f", "a", "u", "l", "t">>

\* the memories the threads start from: empty, the shared session present
\* with an earlier exchange, and a website full of other sessions
SharedMemories ==
    {<<>>,
     (SharedWebsite :> <<[session_id |-> SharedSession, id |-> 0,
                          messages |-> <<[role |-> "user", content |-> <<"q", "0">>],
                                         [role |-> "assistant", content |-> <<"a", "0">>]>>]>>),
     (SharedWebsite :> <<[session_id |-> <<"s", "2">>, id |-> 0, messages |-> <<>>],
                         [session_id |-> <<"s", "3">>, id |-> 0, messages |-> <<>>]>>)}

InitConcurrent ==
    /\ pc = [t \in Threads |-> "website"]
    /\ request = [t \in Threads |->
                    [user_message |-> <<"u">> \o Digits(t),
                     assistant_message |-> <<"a">> \o Digits(t)]]
    /\ result = [t \in Threads |-> PyNone]
    /\ _conversations \in SharedMemories
    /\ _client = <<>>
    /\ trace = <<>>
    /\ llm = PyNone
    /\ ChunkerIdle

\* the sessions of the shared website that hold the shared session_id
SharedAt(conversations) ==
    {i \in 1..Len(conversations[SharedWebsite]) :
        conversations[SharedWebsite][i].session_id = SharedSession}

\* memory.py:83-84: if website_context not in self._conversations
EnsureWebsite(t) ==
    /\ pc[t] = "website"
    /\ _conversations' = IF SharedWebsite \in DOMAIN _conversations THEN _conversations
                         ELSE _conversations @@ (SharedWebsite :> <<>>)
    /\ pc' = [pc EXCEPT ![t] = "check"]
    /\ UNCHANGED <<result, chunkvars, _client, request, trace, llm>>

\* memory.py:86: if session_id not in self._conversations[website_context]
CheckSession(t) ==
    /\ pc[t] = "check"
    /\ pc' = [pc EXCEPT ![t] = IF SharedAt(_conversations) = {} THEN "create" ELSE "return"]
    /\ UNCHANGED <<result, chunkvars, servicevars>>

\* memory.py:88-91: a new Conversation is stored under the session_id; an
\* object another thread stored there meanwhile is replaced
CreateSession(t) ==
    /\ pc[t] = "create"
    /\ _conversations' =
            [_conversations EXCEPT ![SharedWebsite] =
                Append(SelectSeq(@, LAMBDA c : c.session_id # SharedSession),
                       [session_id |-> SharedSession, id |-> t, messages |-> <<>>])]
    /\ pc' = [pc EXCEPT ![t] = "cleanup"]
    /\ UNCHANGED <<result, chunkvars, _client, request, trace, llm>>

\* memory.py:94: self._cleanup_old_sessions(website_context)
CleanupSessions(t) ==
    /\ pc[t] = "cleanup"
    /\ _conversations' = [_conversations EXCEPT ![SharedWebsite] = _cleanup_old_sessions(@)]
    /\ pc' = [pc EXCEPT ![t] = "return"]
    /\ UNCHANGED <<result, chunkvars, _client, request, trace, llm>>

\* memory.py:96 and 106: conversation = self._conversations[...][session_id]
ReturnSession(t) ==
    /\ pc[t] = "return"
    /\ IF SharedAt(_conversations) = {}
       THEN /\ result' = [result EXCEPT ![t] = Raised("KeyError")]
            /\ pc' = [pc EXCEPT ![t] = "done"]
       ELSE /\ result' = [result EXCEPT ![t] =
                            PyInt(_conversations[SharedWebsite][Min(SharedAt(_conversations))].id)]
            /\ pc' = [pc EXCEPT ![t] = "user"]
    /\ UNCHANGED <<chunkvars, servicevars>>

\* conversation.add_message(role, content) on the object the thread refers
\* to: an object no longer stored in the memory takes the message with it
add_message(conversations, id, role, text) ==
    [conversations EXCEPT ![SharedWebsite] =
        [i \in 1..Len(@) |->
            IF @[i].session_id = SharedSession /\ @[i].id = id
            THEN [@[i] EXCEPT !.messages = Append(@, [role |-> role, content |-> text])]
            ELSE @[i]]]

\* memory.py:107: conversation.add_message("user", user_message)
AppendUser(t) ==
    /\ pc[t] = "user"
    /\ _conversations' = add_message(_conversations, result[t].value, "user",
                                     request[t].user_message)
    /\ pc' = [pc EXCEPT ![t] = "assistant"]
    /\ UNCHANGED <<result, chunkvars, _client, request, trace, llm>>

\* memory.py:108: conversation.add_message("assistant", assistant_message)
AppendAssistant(t) ==
    /\ pc[t] = "assistant"
    /\ _conversations' = add_message(_conversations, result[t].value, "assistant",
                                     request[t].assistant_message)
    /\ pc' = [pc EXCEPT ![t] = "done"]
    /\ UNCHANGED <<result, chunkvars, _client, request, trace, llm>>

NextConcurrent ==
    \E t \in Threads :
        \/ EnsureWebsite(t)
        \/ CheckSession(t)
        \/ CreateSession(t)
        \/ CleanupSessions(t)
        \/ ReturnSession(t)
        \/ AppendUser(t)
        \/ AppendAssistant(t)

SpecConcurrent == InitConcurrent /\ [][NextConcurrent]_vars

\* the messages stored under the shared key
SharedMessages ==
    IF SharedWebsite \in DOMAIN _conversations /\ SharedAt(_conversations) # {}
    THEN _conversations[SharedWebsite][Min(SharedAt(_conversations))].messages
    ELSE <<>>

\* C23: in every state the user message of an exchange is followed by
\* nothing or by the assistant message of the same exchange, and when both
\* calls have returned the four messages are stored.
C23_ExchangeAtomic ==
    /\ \A t \in Threads, i \in 1..Len(SharedMessages) :
            (SharedMessages[i].content = request[t].user_message /\ i < Len(SharedMessages))
                => SharedMessages[i + 1].content = request[t].assistant_message
    /\ (\A t \in Threads : pc[t] = "done")
            => \A t \in Threads :
                    \E i, j \in 1..Len(SharedMessages) :
                        /\ SharedMessages[i].content = request[t].user_message
                        /\ SharedMessages[j].content = request[t].assistant_message

(***************************************************************************)
(* The source list of POST /query (app/routes/query.py:72-111, 145-167):   *)
(* the documents retrieved, the project matched or generated for a project *)
(* query, and the list built from both.                                    *)
(***************************************************************************)
\* distances of the stored document chunks: scores 0.9, 0.7 and 0.5
SourceDistances == {1, 3, 5}
SourceRankings ==
    {ds \in UNION {[1..n -> SourceDistances] : n \in 0..MaxHits} :
        \A i, j \in 1..Len(ds) : i < j => ds[i] <= ds[j]}

SourceProjects ==
    {PyDict(<<>>),
     PyDict(<<<<<<"p", "r", "o", "j", "e", "c", "t", "_", "n", "a", "m", "e">>, PyStr(<<"P">>)>>, <<<<"f", "o", "c", "u", "s", "_", "a", "r", "e", "a", "s">>, PyStr(<<"a", ",", " ", "b">>)>>>>)}

SourceStores ==
    {[names |-> <<DARUKA_COLLECTION, PROJECTS_COLLECTION>>,
      hits |-> (DARUKA_COLLECTION :> HitsOf(DARUKA_COLLECTION, docs))
                  @@ (PROJECTS_COLLECTION :> ProjectHits(ds, meta)),
      failing |-> {}] :
        docs \in SourceRankings, ds \in ProjectRankings, meta \in SourceProjects}

InitSources ==
    /\ pc = "call"
    /\ _client \in SourceStores
    /\ request \in [query : Questions, website_context : ChatWebsites, top_k : {MaxHits}]
    /\ result = PyNone
    /\ _conversations = <<>>
    /\ trace = <<>>
    /\ llm \in {[kind |-> "response", content |-> <<"{", "}">>], Raised("APIError")}
    /\ ChunkerIdle

\* the sources query_documents builds for a request, or the exception of the
\* project match or of the answering model that ends the handler before;
\* the documents retrieved and the store afterwards
query_sources(client, model, req) ==
    LET is_project_query ==
            \E k \in 1..Len(project_keywords) :
                Contains(LowerStr(req.query), project_keywords[k])
        grant_focus == IF Truthy(req.website_context)
                       THEN Title(Replace(req.website_context.text, "_", <<" ">>))
                       ELSE <<"C", "o", "n", "s", "e", "r", "v", "a", "t", "i", "o", "n">>
        Build(got, matching_project, project_context, after_search) ==
            [value |-> IF matching_project.kind = "raised" THEN matching_project
                       ELSE IF project_context.kind = "raised" THEN project_context
                       ELSE IF model.kind = "raised" THEN model
                       ELSE PyList(QuerySources(got.documents, matching_project)),
             documents |-> got.documents,
             client |-> after_search]
        WithProject(got, matching_project, after_search) ==
            Build(got, matching_project,
                  IF matching_project.kind = "ProjectMatch"
                  THEN ProjectContext(matching_project) ELSE PyStr(<<>>),
                  after_search)
        Match(got, found) ==
            WithProject(got,
                        IF ~is_project_query THEN PyNone
                        ELSE IF Truthy(found.value) THEN found.value
                        ELSE generate_hypothetical_project(model, grant_focus).value,
                        IF is_project_query THEN found.client ELSE got.client)
        Search(got) == Match(got, find_matching_project(got.client, 2))
    IN  Search(retrieve(client, req.website_context, req.top_k, req.top_k))

FormatSources ==
    /\ pc = "call"
    /\ LET Store(got) ==
            /\ result' = [kind |-> IF got.value.kind = "raised" THEN "raised" ELSE "returned",
                          op |-> "sources", value |-> got.value,
                          documents |-> got.documents]
            /\ _client' = got.client
       IN  Store(query_sources(_client, llm, request))
    /\ pc' = "done"
    /\ UNCHANGED <<chunkvars, request, _conversations, trace, llm>>

NextSources == FormatSources

SpecSources == InitSources /\ [][NextSources]_vars

\* the sources that are retrieved documents: all but a project put in front
DocumentSources ==
    LET sources == result.value.items
    IN  IF Len(sources) > Len(result.documents) THEN Tail(sources) ELSE sources

MaxMemoryOps == 3

MemorySessionIds == {<<"s", "1">>, <<"s", "3">>, <<"s", "4">>}
MemoryWebsites == {PyNone, PyStr(<<"w", "e", "b", "s", "i", "t", "e", "_", "a">>)}

\* ConversationMemory.clear_session(session_id, website_context)
clear_session(conversations, session_id, website_context) ==
    LET website == OrDefault(website_context)
    IN  IF website \notin DOMAIN conversations THEN conversations
        ELSE [conversations EXCEPT ![website] =
                SelectSeq(@, LAMBDA c : c.session_id # session_id)]

\* ConversationMemory.clear_website_sessions(website_context)
clear_website_sessions(conversations, website_context) ==
    IF website_context.kind = "str" /\ website_context.text \in DOMAIN conversations
    THEN [w \in DOMAIN conversations \ {website_context.text} |-> conversations[w]]
    ELSE conversations

\* ConversationMemory.get_session_info(session_id, website_context): the
\* dict returned and the memory afterwards
get_session_info(conversations, session_id, website_context) ==
    LET Info(after) ==
            [value |-> [session_id |-> session_id, website_context |-> website_context,
                        message_count |-> Len(MessagesOf(after, session_id, website_context))],
             conversations |-> after]
    IN  Info(get_or_create_session(conversations, session_id, website_context))

InitMemory ==
    /\ pc = "serve"
    /\ _conversations \in ChatMemories
    /\ request = PyNone
    /\ result = PyNone
    /\ _client = <<>>
    /\ trace = <<>>
    /\ llm = PyNone
    /\ ChunkerIdle

\* one more operation is made while fewer than MaxMemoryOps have been made
Operate(op, session_id, website_context) ==
    /\ pc = "serve"
    /\ Len(trace) < MaxMemoryOps
    /\ request' = [op |-> op, session_id |-> session_id, website_context |-> website_context]
    /\ trace' = Append(trace, [call |-> "memory", arg |-> <<>>])
    /\ UNCHANGED <<pc, chunkvars, _client, llm>>

GetOrCreateSession ==
    \E session_id \in MemorySessionIds, website_context \in MemoryWebsites :
        /\ Operate("get_or_create_session", session_id, website_context)
        /\ _conversations' = get_or_create_session(_conversations, session_id, website_context)
        /\ result' = PyNone

AddExchange ==
    \E session_id \in MemorySessionIds, website_context \in MemoryWebsites :
        /\ Operate("add_exchange", session_id, website_context)
        /\ _conversations' = add_exchange(_conversations, session_id, website_context,
                                          <<"q">>, <<"a">>)
        /\ result' = PyNone

GetFormattedHistory ==
    \E session_id \in MemorySessionIds, website_context \in MemoryWebsites :
        /\ Operate("get_formatted_history", session_id, website_context)
        /\ LET Store(got) ==
                /\ _conversations' = got.conversations
                /\ result' = PyStr(got.text)
           IN  Store(get_formatted_history(_conversations, session_id, website_context, 6))

GetSessionInfo ==
    \E session_id \in MemorySessionIds, website_context \in MemoryWebsites :
        /\ Operate("get_session_info", session_id, website_context)
        /\ LET Store(got) ==
                /\ _conversations' = got.conversations
                /\ result' = got.value
           IN  Store(get_session_info(_conversations, session_id, website_context))

ClearSession ==
    \E session_id \in MemorySessionIds, website_context \in MemoryWebsites :
        /\ Operate("clear_session", session_id, website_context)
        /\ _conversations' = clear_session(_conversations, session_id, website_context)
        /\ result' = PyNone

ClearWebsiteSessions ==
    \E website_context \in MemoryWebsites \cup {PyStr(<<"d", "e", "f", "a", "u", "l", "t">>)} :
        /\ Operate("clear_website_sessions", <<>>, website_context)
        /\ _conversations' = clear_website_sessions(_conversations, website_context)
        /\ result' = PyNone

NextMemory ==
    \/ GetOrCreateSession
    \/ AddExchange
    \/ GetFormattedHistory
    \/ GetSessionInfo
    \/ ClearSession
    \/ ClearWebsiteSessions

SpecMemory == InitMemory /\ [][NextMemory]_vars

\* the session ids of a website, oldest first
SessionIdsOf(conversations, website) ==
    IF website \in DOMAIN conversations
    THEN [i \in 1..Len(conversations[website]) |-> conversations[website][i].session_id]
    ELSE <<>>

\* the step is an operation that creates the session it names
CreatesSession ==
    /\ request'.op \in {"get_or_create_session", "add_exchange",
                        "get_formatted_history", "get_session_info"}
    /\ ~HasSession(_conversations, request'.session_id, OrDefault(request'.website_context))

\* the sessions of the website are the newest of the earlier ones and the
\* one created, which is the last
EvictsOldest ==
    LET website == OrDefault(request'.website_context)
        all == Append(SessionIdsOf(_conversations, website), request'.session_id)
        kept == SessionIdsOf(_conversations', website)
    IN  /\ Len(kept) = Min({max_sessions_per_website, Len(all)})
        /\ kept = SubSeq(all, Len(all) - Len(kept) + 1, Len(all))

\* C25: after every operation each website holds at most
\* max_sessions_per_website sessions; an operation that creates a session
\* over the limit evicts the oldest sessions and keeps the one created.
C25_EvictionKeepsNewest ==
    [][/\ \A website \in DOMAIN _conversations' :
            Len(_conversations'[website]) <= max_sessions_per_website
       /\ CreatesSession => EvictsOldest]_vars

\* C25 witness: a session was created in a full website and the oldest
\* session has gone
C25_Witness ==
    /\ request # PyNone
    /\ request.op \in {"get_or_create_session", "add_exchange",
                       "get_formatted_history", "get_session_info"}
    /\ request.session_id = <<"s", "4">>
    /\ request.website_context = PyNone
    /\ Len(SessionIdsOf(_conversations, <<"d", "e", "f", "a", "u", "l", "t">>)) = max_sessions_per_website
    /\ SessionIdsOf(_conversations, <<"d", "e", "f", "a", "u", "l", "t">>)[max_sessions_per_website] = <<"s", "4">>
    /\ <<"s", "1">> \notin {SessionIdsOf(_conversations, <<"d", "e", "f", "a", "u", "l", "t">>)[i] :
                        i \in 1..Len(SessionIdsOf(_conversations, <<"d", "e", "f", "a", "u", "l", "t">>))}
    /\ <<"s", "3">> \in {SessionIdsOf(_conversations, <<"d", "e", "f", "a", "u", "l", "t">>)[i] :
                        i \in 1..Len(SessionIdsOf(_conversations, <<"d", "e", "f", "a", "u", "l", "t">>))}

\* C26: a chain call made with a session_id whose model call fails leaves
\* the conversation memory as it was: no session created or evicted and no
\* message appended.
C26_FailureLeavesMemory ==
    [][(ChainCall /\ Truthy(request'.session_id) /\ result'.kind = "raised")
            => _conversations' = _conversations]_vars

\* C27: the target collections of a retrieve call never name the same
\* collection twice, whatever the context filter and the collection listing,
\* and no stored chunk appears twice in the results of the call.
C27_NoCollectionTwice ==
    Retrieved =>
        /\ \A i, j \in 1..Len(Queried) : i # j => Queried[i] # Queried[j]
        /\ \A i, j \in 1..Len(result.documents) :
                i # j => result.documents[i].chunk_id # result.documents[j].chunk_id

(***************************************************************************)
(* ingest_text (app/routes/text_ingest.py): POST /ingest/text gathers the  *)
(* documents of the request's content items and adds them to the           *)
(* collection named by the request; a retrieve call with the same name as  *)
(* context filter follows.                                                 *)
(***************************************************************************)
MaxItems == 2

\* request.collection_name.lower().replace(" ", "_").replace(".", "_")
SanitizedName(collection_name) ==
    Replace(Replace(LowerStr(collection_name), " ", <<"_">>), ".", <<"_">>)

\* collection names of the requests
IngestNames == {<<"w", "e", "b", "s", "i", "t", "e", " ", "a">>, <<"W", "e", "b", "s", "i", "t", "e", "_", "A">>, <<"a", ".", "b">>, <<"a", "_", "b">>}

\* a sanitized name as the chunkers write it into chunk ids and metadata
SourceText(collection_name) ==
    IF collection_name = <<"w", "e", "b", "s", "i", "t", "e", "_", "a">> THEN "website_a" ELSE "a_b"

\* texts of the content items: empty, blank, a word, a question with its
\* answer, a markdown table row, a text longer than the thresholds
IngestTexts ==
    {<<>>, <<" ", "\n">>, <<"x">>, <<"Q", ":", "x", "A", ":", "x">>, <<"|", "x", "|", "x", "|">>, <<"x", " ", "x", " ", "x", " ", "x">>}

TextContents ==
    [content : IngestTexts, title : {PyNone}]
        \cup {[content |-> <<"x">>, title |-> PyStr(<<"t">>)]}

TextIngestRequests ==
    [collection_name : IngestNames,
     contents : UNION {[1..n -> TextContents] : n \in 0..MaxItems},
     chunk_content : BOOLEAN]

\* the first eight characters of a uuid4
DocIds == {<<"0", "a", "1", "b", "2", "c", "3", "d">>, <<"4", "e", "5", "f", "6", "a", "7", "b">>}

\* base_metadata of item i (from 0): source, title, type; text_item.metadata
\* is the empty dict of the model's requests
BaseMetadata(collection_name, text_item, i) ==
    PyDict(<<<<<<"s", "o", "u", "r", "c", "e">>, PyStr(collection_name)>>,
             <<<<"t", "i", "t", "l", "e">>, IF Truthy(text_item.title) THEN text_item.title
                          ELSE PyStr(<<"C", "o", "n", "t", "e", "n", "t", " ">> \o Digits(i + 1))>>,
             <<<<"t", "y", "p", "e">>, PyStr(<<"w", "e", "b", "s", "i", "t", "e">>)>>>>)

\* the documents of the chunks of one item, numbered from chunk_counter on;
\* of a chunk's metadata the base fields are kept
ChunkDocuments(chunks, base_metadata, doc_id, chunk_counter) ==
    [k \in 1..Len(chunks) |->
        [document |-> chunks[k].content,
         metadata |-> base_metadata,
         id |-> doc_id \o <<"_", "c", "h", "u", "n", "k", "_">> \o Digits(chunk_counter + k - 1)]]

\* the documents of one content item, item i (from 0) of the request, or
\* the exception of a chunker
ItemDocuments(text_item, chunk_content, collection_name, doc_id, i, chunk_counter) ==
    LET Chunked(routed, base_metadata) ==
            IF IsRaised(routed) THEN routed
            ELSE PyList(ChunkDocuments(routed.chunks, base_metadata, doc_id, chunk_counter))
        Single(base_metadata) ==
            PyList(<<[document |-> text_item.content,
                      metadata |-> base_metadata,
                      id |-> doc_id \o <<"_", "d", "o", "c", "_">> \o Digits(i)]>>)
        Route(base_metadata) ==
            Chunked(route_and_chunk(PyStr(text_item.content), "auto",
                                    SourceText(collection_name), PyNone,
                                    [source |-> SourceText(collection_name),
                                     title |-> Get(base_metadata, <<"t", "i", "t", "l", "e">>, PyNone).text,
                                     type |-> "website"]),
                    base_metadata)
    IN  IF Strip(text_item.content) = <<>> THEN PyList(<<>>)
        ELSE IF chunk_content THEN Route(BaseMetadata(collection_name, text_item, i))
        ELSE Single(BaseMetadata(collection_name, text_item, i))

\* the loop over request.contents from item i (from 0) on: the documents
\* gathered, or the exception of a chunker
RECURSIVE GatherLoop(_, _, _, _, _)
GatherLoop(req, collection_name, doc_id, i, chunk_counter) ==
    LET Following(docs, rest) == IF IsRaised(rest) THEN rest ELSE PyList(docs.items \o rest.items)
        Gather(docs) ==
            IF IsRaised(docs) THEN docs
            ELSE Following(docs, GatherLoop(req, collection_name, doc_id, i + 1,
                                            chunk_counter + Len(docs.items)))
    IN  IF i >= Len(req.contents) THEN PyList(<<>>)
        ELSE Gather(ItemDocuments(req.contents[i + 1], req.chunk_content, collection_name,
                                  doc_id, i, chunk_counter))

\* ChromaManager.add_documents(documents, metadatas, ids, collection_name):
\* the store afterwards; the new documents lie at distance dist of the
\* query that follows
add_documents(client, documents, collection_name, dist) ==
    LET name == IF collection_name = <<>> THEN DARUKA_COLLECTION ELSE collection_name
        opened == get_or_create_collection(client, name)
        old == IF name \in DOMAIN opened.hits THEN opened.hits[name] ELSE <<>>
        new == [k \in 1..Len(documents) |->
                    [content |-> documents[k].document,
                     id |-> documents[k].id,
                     dist |-> dist,
                     meta |-> documents[k].metadata]]
    IN  [opened EXCEPT !.hits = (name :> (old \o new)) @@ @]

\* ingest_text(request): the response and the store afterwards.  The
\* HTTPException raised for an empty document list is raised inside the
\* try block and caught by its `except Exception`, which answers with
\* status 500 and str(e) as detail.
ingest_text(client, req, doc_id, dist) ==
    LET collection_name == SanitizedName(req.collection_name)
        Store(all_documents) ==
            IF IsRaised(all_documents)
            THEN [status |-> 500, value |-> [detail |-> all_documents.error], client |-> client]
            ELSE IF all_documents.items = <<>>
            THEN [status |-> 500,
                  value |-> [detail |-> "400: No valid content to ingest"],
                  client |-> client]
            ELSE [status |-> 200,
                  value |-> [collection |-> collection_name,
                             chunks_added |-> Len(all_documents.items)],
                  client |-> add_documents(client, all_documents.items, collection_name, dist)]
    IN  Store(GatherLoop(req, collection_name, doc_id, 0, 0))

\* the stores the requests meet: no collection, the default collection,
\* the default collection and an older collection of the website
IngestStores ==
    {[names |-> names, hits |-> [name \in {names[i] : i \in 1..Len(names)} |-> <<>>],
      failing |-> {}] :
        names \in {<<>>, <<DARUKA_COLLECTION>>,
                   <<DARUKA_COLLECTION, <<"W", "e", "b", "s", "i", "t", "e", "_", "A", "_", "d", "o", "c", "s">>>>}}

\* the distance at which the ingested documents lie from the query of the
\* retrieve call: the nearest of the model's distances
IngestDistance == CHOOSE d \in Distances : \A e \in Distances : d <= e

\* the router is built with its default hierarchical_threshold
InitTextIngest ==
    /\ pc = "call"
    /\ _client \in IngestStores
    /\ request \in TextIngestRequests
    /\ hierarchical_threshold = ThresholdHigh
    /\ result = PyNone
    /\ _conversations = <<>>
    /\ trace = <<>>
    /\ llm = PyNone
    /\ content = PyNone
    /\ content_type = "auto"
    /\ source = "doc"
    /\ hash_seed = 0
    /\ pages = <<>>
    /\ page_no = 0
    /\ all_chunks = <<>>
    /\ stored_ids = <<>>
    /\ previous = PyNone

IngestText ==
    /\ pc = "call"
    /\ \E doc_id \in DocIds :
            LET Answer(got) ==
                    /\ result' = Response("ingest_text", got.status, got.value)
                    /\ _client' = got.client
            IN  Answer(ingest_text(_client, request, doc_id, IngestDistance))
    /\ pc' = "ingested"
    /\ UNCHANGED <<chunkvars, request, _conversations, trace, llm>>

\* retrieve(query, website_context=request.collection_name) after an ingest
\* that succeeded; previous keeps the response of the ingest
RetrieveIngested ==
    /\ pc = "ingested"
    /\ result.status = 200
    /\ LET Answer(got, website_context) ==
                /\ result' = [kind |-> "documents", documents |-> got.documents]
                /\ _client' = got.client
                /\ trace' = trace
                        \o StoreCalls(_get_target_collections(_client, website_context))
       IN  Answer(retrieve(_client, PyStr(request.collection_name), 0, DefaultTopK),
                  PyStr(request.collection_name))
    /\ previous' = result
    /\ pc' = "done"
    /\ UNCHANGED <<content, content_type, source, hierarchical_threshold, hash_seed,
                   pages, page_no, all_chunks, stored_ids, request, _conversations, llm>>

NextTextIngest == IngestText \/ RetrieveIngested

SpecTextIngest == InitTextIngest /\ [][NextTextIngest]_vars

(***************************************************************************)
(* Properties of the text ingestion.                                       *)
(***************************************************************************)
IngestCall == pc = "call" /\ pc' = "ingested"

\* the chunks route_and_chunk makes of the text of an item
ItemChunks(text) ==
    route_and_chunk(PyStr(text), "auto", "a_b", PyNone, EmptyMetadata).chunks

\* the request yields no document to store: every content item is blank
\* or is routed to an empty chunk list
NoDocument ==
    \A i \in 1..Len(request.contents) :
        \/ Strip(request.contents[i].content) = <<>>
        \/ request.chunk_content /\ ItemChunks(request.contents[i].content) = <<>>

\* C29: ingest_text answers a request that yields no document to store
\* with the client error 400 "No valid content to ingest", not with a 500
\* server error, and adds nothing to the vector store.
C29_NoContentIsClientError ==
    [][(IngestCall /\ NoDocument) =>
            /\ result'.status = 400
            /\ result'.value.detail = "No valid content to ingest"
            /\ _client' = _client]_vars

\* C30: the collection created by ingest_text under a collection name is
\* among the collections searched when retrieve is called with that same
\* name as context filter.
C30_IngestedCollectionFound ==
    (pc = "done" /\ previous.status = 200)
        => \E q \in 1..Len(Queried) : Queried[q] = SanitizedName(request.collection_name)

====
